---------------------------- MODULE Spec2Model ----------------------------
(***************************************************************************)
(* Barq-AutoPost: the App component of the four iterations kept in the     *)
(* repository, as one state machine.                                       *)
(*                                                                         *)
(*   variant = "index"  src/index.tsx         (tabs, error banner, flags)  *)
(*   variant = "p001"   src/unnamed/part_001  (annotation editor)          *)
(*   variant = "gs"     src/geminiService.ts  (App at lines 363-654,       *)
(*                                             distMode)                   *)
(*   variant = "p000"   src/unnamed/part_000  (appMode, tone, debounce)    *)
(*                                                                         *)
(* A state is the React state of App (and of the mounted ImageEditor) plus *)
(* the bag of handler invocations that are suspended at an `await`.  Each  *)
(* suspended invocation carries what its closure captured when the handler *)
(* was invoked.  One action is one event-loop task: a user event with the  *)
(* whole handler up to its first await, or the continuation of a handler   *)
(* after the awaited promise resolved or rejected.                         *)
(*                                                                         *)
(* Not modelled: handleCopy, handleDownload and the loadingMessage effect.  *)
(* They send no request and touch none of the variables below except       *)
(* notification.  The success message of part_000's handleAIRefineCaption  *)
(* is kept without the tone name.                                          *)
(***************************************************************************)
EXTENDS Integers, Sequences, FiniteSets, Bags, TLC

VARIABLES
  variant,                 \* which iteration of the App is mounted
  mode,                    \* activeTab (index) / distMode (gs) / appMode (p000)
  storedMode,              \* p000 only: localStorage item 'barq_mode'
  accomplishment,
  textContent,             \* index only
  caption,
  generatedImage,
  loading,
  enhancing,               \* index only
  generatingCaption,       \* index only
  enhancingCaption,        \* index only
  posting,                 \* index only
  error,                   \* index only
  notification,
  logoBase64,
  logoFetch,               \* the mount effect's logo request
  isEditorOpen,
  textInstructions,        \* ImageEditor state
  isSending,               \* ImageEditor state
  annotations,             \* ImageEditor state (part_001, geminiService.ts): the texts
  editingTextId,           \* ImageEditor state: the annotation being typed, or NoId
  tempText,                \* ImageEditor state: the text being typed for it
  discarded,               \* history: the annotations of the session the last Apply closed
  selectedTone,            \* p000 only
  debouncedAccomplishment, \* p000 only: useDebounce's state
  debounceTimer,           \* p000 only: a setTimeout of useDebounce is pending
  elapsed,                 \* p000 only: ms since that setTimeout was armed
  heldFor,                 \* history: ms accomplishment has kept its value
  styleRef,                \* p000 only: the style reference image
  canvasRect,              \* ImageEditor: getBoundingClientRect() of the canvas
  coords,                  \* ImageEditor: the last pointer and what getCanvasCoords made of it (<<>>: none yet)
  inflight,                \* bag of suspended handler invocations
  last                     \* history: the task that ran last

vars == <<variant, mode, storedMode, accomplishment, textContent, caption, generatedImage,
          loading, enhancing, generatingCaption, enhancingCaption, posting,
          error, notification, logoBase64, logoFetch, isEditorOpen,
          textInstructions, isSending, annotations, editingTextId, tempText,
          discarded, selectedTone, debouncedAccomplishment,
          debounceTimer, elapsed, heldFor, styleRef, canvasRect,
          coords, inflight, last>>

-----------------------------------------------------------------------------
(* Bounds of the model *)

\* most handler invocations suspended at an await at the same time
MaxInFlight == 2

\* the step of the clock, in ms, where time is followed
TickMs == 1000

\* most annotations put on the canvas in one editor session
MaxAnnotations == 2

-----------------------------------------------------------------------------
(* Values *)

Variants == {"index", "p001", "gs", "p000"}

\* JavaScript null for the string-or-null state (generatedImage, error, logoBase64)
Null == "null"

\* Texts are sequences of characters; "" is the empty sequence.
Empty == <<>>
Short == <<"w", "i", "n">>
Long == <<"s", "h", "i", "p", "p", "e", "d", " ", "v", "2", " ", "A", "P", "I">>
AIText == <<"A", "I">>

\* what the user types into the caption, instruction and text-post fields
UserTexts == {Empty, Short}

\* what the user types for an annotation of the editor
Note == <<"v", "2">>

\* an annotation text of white space only
Blank == <<" ">>

AnnotationTexts == {Empty, Blank, Note}

\* what the user types into the accomplishment field: nothing, or a text of
\* more than 10 characters (part_000's auto-caption effect looks at the length)
Accomplishments == {Empty, Long}

\* response.text of the text-generation API: may be empty
TextReplies == {Empty, AIText}

\* what the caption model replies with: nothing, or a caption
CaptionReplies == {Empty, Short}

\* the data URL the generation webhook returns, and the one the edit webhook returns
GeneratedImages == {"imgA"}

EditedImages == {"imgB"}

LogoDataURL == "logo"

Tones == {"Corporate Professional", "Humble Brag"}

NoNotification == [msg |-> "", type |-> "null"]

Success(m) == [msg |-> m, type |-> "success"]

Failure(m) == [msg |-> m, type |-> "error"]


-----------------------------------------------------------------------------
(* User-facing messages *)

\* index.tsx: the texts handed to setError
ErrLogo == "Warning: Could not load company logo. Please refresh or check connection."

ErrEnhance == "Failed to enhance text. Please try again."

ErrCaption == "Failed to generate caption."

ErrEnhanceCaption == "Failed to enhance caption."

ErrNoAccomplishment == "Please enter your weekly accomplishments."

ErrLogoLoading == "Logo is still loading, please wait a moment..."

\* err.message of the Error generateSocialPost throws for a response that is not ok
ErrGeneration == "Generation failed with status: 500"

ErrNoImage == "Please generate an image first."

ErrNoText == "Please enter some text content to post."

\* the notification a handler of the notification-only variants shows
Msg(v, key) ==
  CASE key = "genOk" -> Success("Graphic Forged Successfully")
    [] key = "genFail" -> Failure(IF v = "p000" THEN "Engine Failure"
                                  ELSE "Engine Failure: Unable to generate")
    [] key = "editOk" -> Success(IF v = "p000" THEN "AI Edit Complete"
                                 ELSE "Preview Updated via Webhook")
    [] key = "editFail" -> Failure(IF v = "p000" THEN "AI Edit Failed"
                                   ELSE "Edit Transmission Failed")
    [] key = "postOk" -> Success(IF v = "p000" THEN "Broadcast Successful"
                                 ELSE "Transmitted to LinkedIn Pipeline")
    [] key = "postFail" -> Failure(IF v = "p000" THEN "Network Error"
                                   ELSE "Network Error: Broadcast failed")
    [] key = "refineOk" -> Success(IF v = "p000" THEN "Narrative Refined"
                                   ELSE "Caption Refined via AI")
    [] key = "refineFail" -> Failure("Caption refinement failed")

-----------------------------------------------------------------------------
(* Pure helpers *)

\* enhanceText: `return response.text || text`
EnhanceText(text, reply) == IF reply = Empty THEN text ELSE reply

\* generateCaption: `return response.text || ""`
GenerateCaption(reply) == IF reply = Empty THEN Empty ELSE reply

\* a handler invocation suspended at the await `ph`, with what its closure captured
Inv(h, ph, txt, aux, img, cap, live) ==
  [h |-> h, ph |-> ph, txt |-> txt, aux |-> aux, img |-> img, cap |-> cap,
   live |-> live]

One(r) == SetToBag({r})

Pending == BagToSet(inflight)

\* the bound of the model on concurrently suspended invocations
CanStart == BagCardinality(inflight) < MaxInFlight

\* `{isEditorOpen && generatedImage && <ImageEditor .../>}`: the modal covers the page
EditorShown == isEditorOpen /\ generatedImage # Null

Did(op) == last' = [op |-> op, stale |-> FALSE]

\* a task no property needs to recognise afterwards
Quiet == last' = [op |-> "-", stale |-> FALSE]

DidStale(op, s) == last' = [op |-> op, stale |-> s]

\* useDebounce's effect, dependencies [value, delay], without its cleanup: the
\* timeout armed for the previous value is left running
RestartTimer_NoCleanup(v) ==
  /\ debounceTimer' = IF variant = "p000" /\ v # accomplishment THEN TRUE
                      ELSE debounceTimer
  /\ elapsed' = elapsed

\* useDebounce's effect, dependencies [value, delay]: when the value changed,
\* the cleanup clears the pending timeout and a new one is armed
RestartTimer(v) ==
  /\ debounceTimer' = IF variant = "p000" /\ v # accomplishment THEN TRUE
                      ELSE debounceTimer
  /\ elapsed' = IF variant = "p000" /\ v # accomplishment THEN 0 ELSE elapsed

\* every setAccomplishment re-renders; useDebounce's effect restarts its timer
\* when the value changed
SetAccomplishment(v) ==
  /\ accomplishment' = v
  /\ heldFor' = IF v # accomplishment THEN 0 ELSE heldFor
  /\ RestartTimer(v)

idxFlags == <<enhancing, generatingCaption, enhancingCaption, posting>>

annotVars == <<annotations, editingTextId, tempText>>

modeVars == <<mode, storedMode>>

\* editingTextId null: no annotation is being typed (ids are positions, from 1)
NoId == 0

editorVars == <<isEditorOpen, textInstructions, isSending, annotVars>>

logoVars == <<logoBase64, logoFetch>>

canvasVars == <<canvasRect, coords>>

\* no canvas is laid out
NoRect == [width |-> 0, height |-> 0]

\* what only the actions of one part of the model change
constVars == <<variant, canvasVars, styleRef, discarded>>

timerVars == <<debounceTimer, elapsed, heldFor>>

-----------------------------------------------------------------------------
(* JavaScript Number arithmetic: IEEE 754 doubles, round to nearest, ties to *)
(* even.  A double is [m, e], the number m / 2^e, with m a natural number    *)
(* kept as a little-endian sequence of limbs below 2^15.                     *)

\* bits of the significand of a double
MantissaBits == 53

\* a natural number below 2^30 as limbs
Big(n) ==
  IF n = 0 THEN <<>>
  ELSE IF n < 32768 THEN <<n>>
  ELSE <<n % 32768, n \div 32768>>

RECURSIVE BigMulC(_, _, _)
BigMulC(b, n, carry) ==
  IF b = <<>> THEN Big(carry)
  ELSE LET t == Head(b) * n + carry
       IN <<t % 32768>> \o BigMulC(Tail(b), n, t \div 32768)

\* b * n for 0 <= n <= 2^15
BigMul(b, n) == IF n = 0 THEN <<>> ELSE BigMulC(b, n, 0)

\* quotient and remainder of b by n, for 0 < n <= 2^15
RECURSIVE BigDiv(_, _)
BigDiv(b, n) ==
  IF b = <<>> THEN [q |-> <<>>, r |-> 0]
  ELSE LET hi == BigDiv(Tail(b), n)
           cur == hi.r * 32768 + Head(b)
           d == cur \div n
       IN [q |-> IF hi.q = <<>> /\ d = 0 THEN <<>> ELSE <<d>> \o hi.q,
           r |-> cur % n]

\* -1, 0 or 1 as a < b, a = b or a > b
RECURSIVE BigCmp(_, _)
BigCmp(a, b) ==
  IF Len(a) # Len(b) THEN (IF Len(a) < Len(b) THEN -1 ELSE 1)
  ELSE IF a = <<>> THEN 0
  ELSE LET c == BigCmp(Tail(a), Tail(b))
       IN IF c # 0 THEN c
          ELSE IF Head(a) < Head(b) THEN -1
          ELSE IF Head(a) > Head(b) THEN 1
          ELSE 0

RECURSIVE BigInc(_)
BigInc(b) ==
  IF b = <<>> THEN <<1>>
  ELSE IF Head(b) < 32767 THEN <<Head(b) + 1>> \o Tail(b)
  ELSE <<0>> \o BigInc(Tail(b))

\* b * 2^k
RECURSIVE BigShl(_, _)
BigShl(b, k) ==
  IF k = 0 THEN b
  ELSE IF k >= 15 THEN BigShl(BigMul(b, 32768), k - 15)
  ELSE BigMul(b, 2^k)

RECURSIVE Bits(_)
Bits(n) == IF n = 0 THEN 0 ELSE 1 + Bits(n \div 2)

BitLength(b) == IF b = <<>> THEN 0 ELSE 15 * (Len(b) - 1) + Bits(b[Len(b)])

\* the quotient q of a division by n that left the remainder r, rounded to
\* nearest, ties to even
RoundNearestEven(q, r, n) ==
  IF 2 * r > n \/ (2 * r = n /\ q # <<>> /\ Head(q) % 2 = 1)
    THEN BigInc(q)
    ELSE q

RECURSIVE FloatDivAt(_, _, _)
FloatDivAt(num, n, e) ==
  LET d == BigDiv(num, n)
  IN IF BitLength(d.q) >= MantissaBits
       THEN [m |-> RoundNearestEven(d.q, d.r, n), e |-> e]
       ELSE FloatDivAt(BigMul(num, 2), n, e + 1)

\* a / n in doubles, for integers 0 <= a < 2^30 and 0 < n < 2^15
FloatDiv(a, n) ==
  IF a = 0 THEN [m |-> <<>>, e |-> 0] ELSE FloatDivAt(Big(a), n, 0)

\* d * f in doubles, for an integer 0 <= d < 2^15 and a double f
FloatMul(d, f) ==
  LET p == BigMul(f.m, d)
      k == BitLength(p) - MantissaBits
  IN IF k <= 0 THEN [m |-> p, e |-> f.e]
     ELSE LET dv == BigDiv(p, 2^k)
          IN [m |-> BigShl(RoundNearestEven(dv.q, dv.r, 2^k), k), e |-> f.e]

\* -1, 0 or 1 as the double f is below, equal to or above the integer n
FloatCmpInt(f, n) == BigCmp(f.m, BigShl(Big(n), f.e))

-----------------------------------------------------------------------------
(* Initial state: App freshly mounted, the logo request of the mount effect *)
(* in flight, useDebounce's first timer armed.                              *)

Mounted(vs) ==
  /\ variant \in vs
  /\ mode \in (IF variant = "p000" THEN {"image", "text"} ELSE {"image"})
  /\ storedMode = (IF variant = "p000" THEN mode ELSE Null)
  /\ accomplishment = Empty
  /\ textContent = Empty
  /\ caption = Empty
  /\ generatedImage = Null
  /\ loading = FALSE
  /\ enhancing = FALSE
  /\ generatingCaption = FALSE
  /\ enhancingCaption = FALSE
  /\ posting = FALSE
  /\ error = Null
  /\ notification = NoNotification
  /\ logoBase64 = Null
  /\ logoFetch = "pending"
  /\ isEditorOpen = FALSE
  /\ textInstructions = Empty
  /\ isSending = FALSE
  /\ annotations = <<>>
  /\ editingTextId = NoId
  /\ tempText = Empty
  /\ discarded = <<>>
  /\ selectedTone = "Corporate Professional"
  /\ debouncedAccomplishment = Empty
  /\ debounceTimer = (variant = "p000")
  /\ elapsed = 0
  /\ heldFor = 0
  /\ styleRef = Null
  /\ canvasRect = NoRect
  /\ coords = <<>>
  /\ inflight = EmptyBag
  /\ last = [op |-> "mount", stale |-> FALSE]

\* index.tsx, part_001 and the App of geminiService.ts
Init == Mounted(Variants \ {"p000"})

\* the four variants; part_000 takes its appMode from localStorage
InitAll == Mounted(Variants)

\* part_000 alone
InitP000 == Mounted({"p000"})

\* part_001 and the App of geminiService.ts: the variants with the annotation editor
InitEditing == Mounted({"p001", "gs"})

-----------------------------------------------------------------------------
(* The logo request of the mount effect *)

\* the blob was read: setLogoBase64(reader.result)
FetchLogoOk ==
  /\ logoFetch = "pending"
  /\ logoFetch' = "loaded"
  /\ logoBase64' = LogoDataURL
  /\ Quiet
  /\ UNCHANGED <<constVars, modeVars, accomplishment, textContent, caption,
                 generatedImage, loading, idxFlags, error, notification,
                 editorVars, selectedTone, debouncedAccomplishment,
                 timerVars, inflight>>

\* fetch rejected (index.tsx: or the response was not ok).  index.tsx catches and
\* sets the error banner; the other iterations chain .then without a catch.
FetchLogoFail ==
  /\ logoFetch = "pending"
  /\ logoFetch' = "failed"
  /\ error' = IF variant = "index" THEN ErrLogo ELSE error
  /\ Did("FetchLogoFail")
  /\ UNCHANGED <<constVars, modeVars, accomplishment, textContent, caption,
                 generatedImage, loading, idxFlags, notification, logoBase64,
                 editorVars, selectedTone, debouncedAccomplishment,
                 timerVars, inflight>>

-----------------------------------------------------------------------------
(* index.tsx *)

\* the two tab buttons
SetActiveTab(t) ==
  /\ variant = "index"
  /\ mode' = t
  /\ UNCHANGED storedMode
  /\ notification' = NoNotification
  /\ error' = Null
  /\ Quiet
  /\ UNCHANGED <<constVars, accomplishment, textContent, caption, generatedImage,
                 loading, idxFlags, logoVars, editorVars, selectedTone,
                 debouncedAccomplishment, timerVars, inflight>>

\* the textarea of the text tab
TypeTextContent(v) ==
  /\ variant = "index"
  /\ mode = "text"
  /\ v # textContent
  /\ textContent' = v
  /\ Quiet
  /\ UNCHANGED <<constVars, modeVars, accomplishment, caption, generatedImage,
                 loading, idxFlags, error, notification, logoVars, editorVars,
                 selectedTone, debouncedAccomplishment, timerVars, inflight>>

\* handleEnhance(type), from the Enhance button of the tab `type`
\* (disabled={enhancing || !text})
IdxHandleEnhance(type) ==
  /\ variant = "index"
  /\ mode = type
  /\ ~enhancing
  /\ CanStart
  /\ LET targetText == IF type = "image" THEN accomplishment ELSE textContent
     IN /\ targetText # Empty
        /\ inflight' = inflight (+) One(Inv("handleEnhance", "enhanceText",
                                            targetText, type, Null, Empty, TRUE))
  /\ enhancing' = TRUE
  /\ error' = Null
  /\ Quiet
  /\ UNCHANGED <<constVars, modeVars, accomplishment, textContent, caption,
                 generatedImage, loading, generatingCaption, enhancingCaption,
                 posting, notification, logoVars, editorVars, selectedTone,
                 debouncedAccomplishment, timerVars>>

\* handleEnhance writing its result to the field of the tab that is shown when
\* the reply arrives
IdxHandleEnhanceOk_ActiveTab(r, reply) ==
  /\ variant = "index"
  /\ r.h = "handleEnhance"
  /\ inflight' = inflight (-) One(r)
  /\ IF mode = "image"
       THEN /\ accomplishment' = EnhanceText(r.txt, reply)
            /\ DidStale("handleEnhanceOk", accomplishment # r.txt)
            /\ UNCHANGED textContent
       ELSE /\ textContent' = EnhanceText(r.txt, reply)
            /\ DidStale("handleEnhanceOk", textContent # r.txt)
            /\ UNCHANGED accomplishment
  /\ enhancing' = FALSE
  /\ UNCHANGED <<constVars, modeVars, caption, generatedImage, loading,
                 generatingCaption, enhancingCaption, posting, error,
                 notification, logoVars, editorVars, selectedTone,
                 debouncedAccomplishment, timerVars>>

\* enhanceText resolved: the result goes to the field the handler was invoked for
IdxHandleEnhanceOk(r, reply) ==
  /\ variant = "index"
  /\ r.h = "handleEnhance"
  /\ inflight' = inflight (-) One(r)
  /\ IF r.aux = "image"
       THEN /\ accomplishment' = EnhanceText(r.txt, reply)
            /\ DidStale("handleEnhanceOk", accomplishment # r.txt)
            /\ UNCHANGED textContent
       ELSE /\ textContent' = EnhanceText(r.txt, reply)
            /\ DidStale("handleEnhanceOk", textContent # r.txt)
            /\ UNCHANGED accomplishment
  /\ enhancing' = FALSE
  /\ UNCHANGED <<constVars, modeVars, caption, generatedImage, loading,
                 generatingCaption, enhancingCaption, posting, error,
                 notification, logoVars, editorVars, selectedTone,
                 debouncedAccomplishment, timerVars>>

IdxHandleEnhanceFail(r) ==
  /\ variant = "index"
  /\ r.h = "handleEnhance"
  /\ inflight' = inflight (-) One(r)
  /\ error' = ErrEnhance
  /\ enhancing' = FALSE
  /\ Did("handleEnhanceFail")
  /\ UNCHANGED <<constVars, modeVars, accomplishment, textContent, caption,
                 generatedImage, loading, generatingCaption, enhancingCaption,
                 posting, notification, logoVars, editorVars, selectedTone,
                 debouncedAccomplishment, timerVars>>

\* handleGenerateCaption, from "AI Generate" (disabled={generatingCaption}), shown
\* under the generated image
IdxHandleGenerateCaption ==
  /\ variant = "index"
  /\ mode = "image"
  /\ generatedImage # Null
  /\ ~generatingCaption
  /\ CanStart
  /\ IF accomplishment = Empty
       THEN UNCHANGED <<generatingCaption, inflight>>
       ELSE /\ generatingCaption' = TRUE
            /\ inflight' = inflight (+) One(Inv("handleGenerateCaption",
                              "generateCaption", accomplishment, "", Null, Empty, TRUE))
  /\ Quiet
  /\ UNCHANGED <<constVars, modeVars, accomplishment, textContent, caption,
                 generatedImage, loading, enhancing, enhancingCaption, posting,
                 error, notification, logoVars, editorVars, selectedTone,
                 debouncedAccomplishment, timerVars>>

IdxHandleGenerateCaptionOk(r, reply) ==
  /\ variant = "index"
  /\ r.h = "handleGenerateCaption"
  /\ inflight' = inflight (-) One(r)
  /\ caption' = GenerateCaption(reply)
  /\ generatingCaption' = FALSE
  /\ Quiet
  /\ UNCHANGED <<constVars, modeVars, accomplishment, textContent, generatedImage,
                 loading, enhancing, enhancingCaption, posting, error,
                 notification, logoVars, editorVars, selectedTone,
                 debouncedAccomplishment, timerVars>>

IdxHandleGenerateCaptionFail(r) ==
  /\ variant = "index"
  /\ r.h = "handleGenerateCaption"
  /\ inflight' = inflight (-) One(r)
  /\ error' = ErrCaption
  /\ generatingCaption' = FALSE
  /\ Did("handleGenerateCaptionFail")
  /\ UNCHANGED <<constVars, modeVars, accomplishment, textContent, caption,
                 generatedImage, loading, enhancing, enhancingCaption, posting,
                 notification, logoVars, editorVars, selectedTone,
                 debouncedAccomplishment, timerVars>>

\* handleEnhanceCaption, from "Enhance" (disabled={enhancingCaption || !caption})
IdxHandleEnhanceCaption ==
  /\ variant = "index"
  /\ mode = "image"
  /\ generatedImage # Null
  /\ ~enhancingCaption
  /\ caption # Empty
  /\ CanStart
  /\ enhancingCaption' = TRUE
  /\ inflight' = inflight (+) One(Inv("handleEnhanceCaption", "enhanceText",
                                      caption, "text", Null, Empty, TRUE))
  /\ Quiet
  /\ UNCHANGED <<constVars, modeVars, accomplishment, textContent, caption,
                 generatedImage, loading, enhancing, generatingCaption, posting,
                 error, notification, logoVars, editorVars, selectedTone,
                 debouncedAccomplishment, timerVars>>

IdxHandleEnhanceCaptionOk(r, reply) ==
  /\ variant = "index"
  /\ r.h = "handleEnhanceCaption"
  /\ inflight' = inflight (-) One(r)
  /\ caption' = EnhanceText(r.txt, reply)
  /\ enhancingCaption' = FALSE
  /\ Quiet
  /\ UNCHANGED <<constVars, modeVars, accomplishment, textContent, generatedImage,
                 loading, enhancing, generatingCaption, posting, error,
                 notification, logoVars, editorVars, selectedTone,
                 debouncedAccomplishment, timerVars>>

IdxHandleEnhanceCaptionFail(r) ==
  /\ variant = "index"
  /\ r.h = "handleEnhanceCaption"
  /\ inflight' = inflight (-) One(r)
  /\ error' = ErrEnhanceCaption
  /\ enhancingCaption' = FALSE
  /\ Did("handleEnhanceCaptionFail")
  /\ UNCHANGED <<constVars, modeVars, accomplishment, textContent, caption,
                 generatedImage, loading, enhancing, generatingCaption, posting,
                 notification, logoVars, editorVars, selectedTone,
                 debouncedAccomplishment, timerVars>>

-----------------------------------------------------------------------------
(* geminiService.ts / part_002: generateSocialPost and its data URLs *)

\* the text of the data URLs the model names: those a FileReader makes of an
\* image, of a blob without a type and of an empty blob, a data URL that is
\* not base64, and ones cut short or damaged
DataURLOf(name) ==
  CASE name = "logo" ->
         <<"d", "a", "t", "a", ":", "i", "m", "a", "g", "e", "/", "p",
           "n", "g", ";", "b", "a", "s", "e", "6", "4", ",", "i", "V",
           "B", "O">>
    [] name = "refA" ->
         <<"d", "a", "t", "a", ":", "i", "m", "a", "g", "e", "/", "p",
           "n", "g", ";", "b", "a", "s", "e", "6", "4", ",", "A", "A",
           "E", "C">>
    [] name = "refB" ->
         <<"d", "a", "t", "a", ":", "i", "m", "a", "g", "e", "/", "g",
           "i", "f", ";", "b", "a", "s", "e", "6", "4", ",", "R", "0",
           "k", "=">>
    [] name = "noType" ->
         <<"d", "a", "t", "a", ":", ";", "b", "a", "s", "e", "6", "4",
           ",", "i", "V">>
    [] name = "emptyBlob" ->
         <<"d", "a", "t", "a", ":">>
    [] name = "plain" ->
         <<"d", "a", "t", "a", ":", "t", "e", "x", "t", "/", "p", "l",
           "a", "i", "n", ",", "h", "i">>
    [] name = "noPayload" ->
         <<"d", "a", "t", "a", ":", "i", "m", "a", "g", "e", "/", "p",
           "n", "g", ";", "b", "a", "s", "e", "6", "4">>
    [] name = "badChar" ->
         <<"d", "a", "t", "a", ":", "i", "m", "a", "g", "e", "/", "p",
           "n", "g", ";", "b", "a", "s", "e", "6", "4", ",", "i", "V",
           "*", "O">>
    [] name = "badLength" ->
         <<"d", "a", "t", "a", ":", "i", "m", "a", "g", "e", "/", "p",
           "n", "g", ";", "b", "a", "s", "e", "6", "4", ",", "i", "V",
           "B", "O", "R">>

\* dataURLtoBlob: the Blob, or that it throws. split(',') gives arr[0] up
\* to the first comma and arr[1] between the first and the second, undefined
\* without a comma; /:(.*?);/ needs a ':' with a ';' after it in arr[0]; atob
\* drops white space and up to two '=' of a padded text, and throws on a
\* length of 1 modulo 4 or a character outside the base64 alphabet
dataURLtoBlob(dataurl) ==
  LET Least(S) == CHOOSE i \in S : \A j \in S : i <= j
      commas == {i \in DOMAIN dataurl : dataurl[i] = ","}
      arr0 == IF commas = {} THEN dataurl
              ELSE SubSeq(dataurl, 1, Least(commas) - 1)
      after == commas \ {Least(commas)}
      arr1 == IF commas = {} THEN <<"u", "n", "d", "e", "f", "i", "n", "e", "d">>
              ELSE SubSeq(dataurl, Least(commas) + 1,
                          IF after = {} THEN Len(dataurl) ELSE Least(after) - 1)
      colons == {i \in DOMAIN arr0 : arr0[i] = ":"}
      semis == {i \in DOMAIN arr0 :
                  arr0[i] = ";" /\ colons # {} /\ i > Least(colons)}
      mime == SubSeq(arr0, Least(colons) + 1, Least(semis) - 1)
      Base64 == {"A", "B", "C", "D", "E", "F", "G", "H", "I", "J", "K", "L", "M",
                 "N", "O", "P", "Q", "R", "S", "T", "U", "V", "W", "X", "Y", "Z",
                 "a", "b", "c", "d", "e", "f", "g", "h", "i", "j", "k", "l", "m",
                 "n", "o", "p", "q", "r", "s", "t", "u", "v", "w", "x", "y", "z",
                 "0", "1", "2", "3", "4", "5", "6", "7", "8", "9", "+", "/"}
      solid == SelectSeq(arr1, LAMBDA c : c \notin {" ", "\t", "\n", "\f", "\r"})
      Ends(t, c) == t # <<>> /\ t[Len(t)] = c
      body == IF Len(solid) % 4 = 0 /\ Ends(solid, "=")
                THEN IF Ends(SubSeq(solid, 1, Len(solid) - 1), "=")
                       THEN SubSeq(solid, 1, Len(solid) - 2)
                       ELSE SubSeq(solid, 1, Len(solid) - 1)
                ELSE solid
      decodes == /\ Len(body) % 4 # 1
                 /\ \A i \in DOMAIN body : body[i] \in Base64
  IN IF semis # {} /\ decodes
       THEN [thrown |-> FALSE, type |-> mime, size |-> (Len(body) * 3) \div 4]
       ELSE [thrown |-> TRUE, type |-> <<>>, size |-> 0]

\* generateSocialPost skipping the conversion of a style reference that fails
generateSocialPost_NoStyleCheck(logo, style) ==
  IF logo = Null \/ dataURLtoBlob(DataURLOf(logo)).thrown
    THEN [sent |-> FALSE, message |-> "Failed to process logo image."]
    ELSE [sent |-> TRUE, message |-> ""]

\* generateSocialPost up to its fetch: whether the request is sent, and the
\* message of the Error it throws before that; a null logo makes
\* dataurl.split throw inside the try; `if (styleRef)` skips a null and an
\* empty style reference
generateSocialPost(logo, style) ==
  IF logo = Null \/ dataURLtoBlob(DataURLOf(logo)).thrown
    THEN [sent |-> FALSE, message |-> "Failed to process logo image."]
    ELSE IF style # Null /\ DataURLOf(style) # <<>>
              /\ dataURLtoBlob(DataURLOf(style)).thrown
      THEN [sent |-> FALSE,
            message |-> "Failed to process style reference image."]
      ELSE [sent |-> TRUE, message |-> ""]

-----------------------------------------------------------------------------
\* LogoMissing with the check left out
LogoMissing_Never == FALSE

\* `!logoBase64`: the logo has not been loaded
LogoMissing == logoBase64 = Null

\* handleGenerate, from "Generate Post Image" (disabled={loading}) or from
\* "Regenerate" under the generated image (never disabled)
IdxHandleGenerate ==
  /\ variant = "index"
  /\ mode = "image"
  /\ ~loading \/ generatedImage # Null
  /\ CanStart
  /\ IF accomplishment = Empty
       THEN /\ error' = ErrNoAccomplishment
            /\ UNCHANGED <<loading, generatedImage, notification, caption, inflight>>
       ELSE IF LogoMissing
         THEN /\ error' = ErrLogoLoading
              /\ UNCHANGED <<loading, generatedImage, notification, caption, inflight>>
         ELSE /\ loading' = TRUE
              /\ error' = Null
              /\ generatedImage' = Null
              /\ notification' = NoNotification
              /\ caption' = Empty
              /\ LET post == generateSocialPost(logoBase64, styleRef)
                 IN inflight' = inflight (+) One(Inv("handleGenerate",
                        IF post.sent THEN "generateSocialPost" ELSE "rejected",
                        Empty, post.message, generatedImage, caption, TRUE))
  /\ Did(IF accomplishment = Empty \/ LogoMissing
           THEN "handleGenerateReturn" ELSE "-")
  /\ UNCHANGED <<constVars, modeVars, accomplishment, textContent, idxFlags,
                 logoVars, editorVars, selectedTone, debouncedAccomplishment,
                 timerVars>>

IdxHandleGenerateOk(r, image) ==
  /\ variant = "index"
  /\ r.h = "handleGenerate"
  /\ r.ph = "generateSocialPost"
  /\ inflight' = inflight (-) One(r)
  /\ generatedImage' = image
  /\ loading' = FALSE
  /\ Quiet
  /\ UNCHANGED <<constVars, modeVars, accomplishment, textContent, caption, idxFlags,
                 error, notification, logoVars, editorVars, selectedTone,
                 debouncedAccomplishment, timerVars>>

\* IdxHandleGenerateFail sending the failed request once more
IdxHandleGenerateFail_Retry(r) ==
  /\ variant = "index"
  /\ r.h = "handleGenerate"
  /\ UNCHANGED inflight
  /\ error' = ErrGeneration
  /\ UNCHANGED loading
  /\ Did("handleGenerateFail")
  /\ UNCHANGED <<constVars, modeVars, accomplishment, textContent, caption,
                 generatedImage, idxFlags, notification, logoVars, editorVars,
                 selectedTone, debouncedAccomplishment, timerVars>>

IdxHandleGenerateFail(r) ==
  /\ variant = "index"
  /\ r.h = "handleGenerate"
  /\ inflight' = inflight (-) One(r)
  /\ error' = (IF r.ph = "rejected" THEN r.aux ELSE ErrGeneration)
  /\ loading' = FALSE
  /\ Did("handleGenerateFail")
  /\ UNCHANGED <<constVars, modeVars, accomplishment, textContent, caption,
                 generatedImage, idxFlags, notification, logoVars, editorVars,
                 selectedTone, debouncedAccomplishment, timerVars>>

\* the Post buttons without `posting` in their disabled attribute
IdxPostButton_NeverDisabled ==
  IF mode = "image" THEN generatedImage # Null ELSE textContent # Empty

\* a button that invokes handlePostToLinkedIn can be pressed: "Post to
\* LinkedIn" under the generated image (disabled={posting}), or one of the two
\* text-tab buttons (disabled={posting || !textContent})
IdxPostButton ==
  /\ ~posting
  /\ IF mode = "image" THEN generatedImage # Null ELSE textContent # Empty

\* handlePostToLinkedIn without the `if (!textContent)` return of its text branch
IdxHandlePostToLinkedIn_NoTextCheck ==
  /\ variant = "index"
  /\ CanStart
  /\ notification' = NoNotification
  /\ IF mode = "image" /\ generatedImage = Null
       THEN /\ error' = ErrNoImage
            /\ UNCHANGED <<posting, inflight>>
       ELSE /\ error' = Null
            /\ posting' = TRUE
            /\ inflight' = inflight (+) One(
                 IF mode = "image"
                   THEN Inv("handlePostToLinkedIn", "fetchImage", Empty, "image",
                            generatedImage, Empty, TRUE)
                   ELSE Inv("handlePostToLinkedIn", "webhook", textContent, "text",
                            Null, Empty, TRUE))
  /\ Quiet
  /\ UNCHANGED <<constVars, modeVars, accomplishment, textContent, caption,
                 generatedImage, loading, enhancing, generatingCaption,
                 enhancingCaption, logoVars, editorVars, selectedTone,
                 debouncedAccomplishment, timerVars>>

\* handlePostToLinkedIn up to its first await, with its own validation
IdxHandlePostToLinkedIn ==
  /\ variant = "index"
  /\ CanStart
  /\ notification' = NoNotification
  /\ IF mode = "image"
       THEN IF generatedImage = Null
              THEN /\ error' = ErrNoImage
                   /\ UNCHANGED <<posting, inflight>>
              ELSE /\ error' = Null
                   /\ posting' = TRUE
                   /\ inflight' = inflight (+) One(Inv("handlePostToLinkedIn",
                          "fetchImage", Empty, "image", generatedImage, Empty, TRUE))
       ELSE IF textContent = Empty
              THEN /\ error' = ErrNoText
                   /\ UNCHANGED <<posting, inflight>>
              ELSE /\ error' = Null
                   /\ posting' = TRUE
                   /\ inflight' = inflight (+) One(Inv("handlePostToLinkedIn",
                          "webhook", textContent, "text", Null, Empty, TRUE))
  /\ Quiet
  /\ UNCHANGED <<constVars, modeVars, accomplishment, textContent, caption,
                 generatedImage, loading, enhancing, generatingCaption,
                 enhancingCaption, logoVars, editorVars, selectedTone,
                 debouncedAccomplishment, timerVars>>

\* `await fetch(generatedImage)` and `await res.blob()` of the data URL resolved:
\* the form is built from the captured image and caption and POSTed
IdxPostImageSend(r) ==
  /\ variant = "index"
  /\ r.h = "handlePostToLinkedIn"
  /\ r.ph = "fetchImage"
  /\ inflight' = (inflight (-) One(r)) (+) One([r EXCEPT !.ph = "webhook"])
  /\ Quiet
  /\ UNCHANGED <<constVars, modeVars, accomplishment, textContent, caption,
                 generatedImage, loading, idxFlags, error, notification, logoVars,
                 editorVars, selectedTone, debouncedAccomplishment, timerVars>>

\* the webhook answered with response.ok
IdxHandlePostOk(r) ==
  /\ variant = "index"
  /\ r.h = "handlePostToLinkedIn"
  /\ r.ph = "webhook"
  /\ inflight' = inflight (-) One(r)
  /\ notification' = Success(IF r.aux = "image"
                               THEN "Successfully posted image to LinkedIn!"
                               ELSE "Successfully posted text to LinkedIn!")
  /\ posting' = FALSE
  /\ Quiet
  /\ UNCHANGED <<constVars, modeVars, accomplishment, textContent, caption,
                 generatedImage, loading, enhancing, generatingCaption,
                 enhancingCaption, error, logoVars, editorVars, selectedTone,
                 debouncedAccomplishment, timerVars>>

\* IdxHandlePostFail with the finally block left out
IdxHandlePostFail_NoFinally(r) ==
  /\ variant = "index"
  /\ r.h = "handlePostToLinkedIn"
  /\ inflight' = inflight (-) One(r)
  /\ notification' = Failure(IF r.aux = "image" THEN "Failed to post image"
                             ELSE "Failed to post text")
  /\ UNCHANGED posting
  /\ Did("handlePostFail")
  /\ UNCHANGED <<constVars, modeVars, accomplishment, textContent, caption,
                 generatedImage, loading, enhancing, generatingCaption,
                 enhancingCaption, error, logoVars, editorVars, selectedTone,
                 debouncedAccomplishment, timerVars>>

\* fetch rejected or the webhook's response was not ok
IdxHandlePostFail(r) ==
  /\ variant = "index"
  /\ r.h = "handlePostToLinkedIn"
  /\ inflight' = inflight (-) One(r)
  /\ notification' = Failure(IF r.aux = "image" THEN "Failed to post image"
                             ELSE "Failed to post text")
  /\ posting' = FALSE
  /\ Did("handlePostFail")
  /\ UNCHANGED <<constVars, modeVars, accomplishment, textContent, caption,
                 generatedImage, loading, enhancing, generatingCaption,
                 enhancingCaption, error, logoVars, editorVars, selectedTone,
                 debouncedAccomplishment, timerVars>>

-----------------------------------------------------------------------------
(* Text areas common to the four iterations *)

\* where the accomplishment textarea is rendered and reachable
AccomplishmentShown ==
  /\ ~EditorShown
  /\ CASE variant = "index" -> mode = "image"
       [] OTHER -> TRUE

\* where the caption textarea is rendered and reachable
CaptionShown ==
  /\ ~EditorShown
  /\ CASE variant = "index" -> mode = "image" /\ generatedImage # Null
       [] variant = "p001" -> ~loading /\ generatedImage # Null
       [] variant = "gs" -> ~loading /\ (mode = "image" => generatedImage # Null)
       [] variant = "p000" -> mode = "text" \/ (~loading /\ generatedImage # Null)

TypeAccomplishment(v) ==
  /\ AccomplishmentShown
  /\ v # accomplishment
  /\ SetAccomplishment(v)
  /\ Quiet
  /\ UNCHANGED <<constVars, modeVars, textContent, caption, generatedImage, loading,
                 idxFlags, error, notification, logoVars, editorVars,
                 selectedTone, debouncedAccomplishment, inflight>>

TypeCaption(v) ==
  /\ CaptionShown
  /\ v # caption
  /\ caption' = v
  /\ Quiet
  /\ UNCHANGED <<constVars, modeVars, accomplishment, textContent, generatedImage,
                 loading, idxFlags, error, notification, logoVars, editorVars,
                 selectedTone, debouncedAccomplishment, timerVars, inflight>>

-----------------------------------------------------------------------------
(* part_001, geminiService.ts (App) and part_000: one `loading` flag, one   *)
(* notification, an ImageEditor modal.  The handlers are the same code up   *)
(* to the differences spelled out with `variant`.                           *)

NotifVariants == {"p001", "gs", "p000"}

\* String.prototype.trim on a sequence of characters
RECURSIVE TrimLeft(_)
TrimLeft(t) == IF t # <<>> /\ Head(t) = " " THEN TrimLeft(Tail(t)) ELSE t

RECURSIVE TrimRight(_)
TrimRight(t) ==
  IF t # <<>> /\ t[Len(t)] = " " THEN TrimRight(SubSeq(t, 1, Len(t) - 1)) ELSE t

Trim(t) == TrimRight(TrimLeft(t))

\* the pane with the generated image and its buttons
PreviewShown ==
  /\ ~EditorShown
  /\ ~loading
  /\ generatedImage # Null
  /\ variant \in {"gs", "p000"} => mode = "image"

\* the bag with every suspended handleFinalSend cut off from the editor that
\* started it: that ImageEditor instance was unmounted
Orphans(B) ==
  LET S == BagToSet(B)
      cut(r) == IF r.h = "handleFinalSend" THEN [r EXCEPT !.live = FALSE] ELSE r
      T == {cut(r) : r \in S}
      count(t) == (IF t \in S THEN B[t] ELSE 0)
                  + (IF t.h = "handleFinalSend" /\ ~t.live
                        /\ [t EXCEPT !.live = TRUE] \in S
                       THEN B[[t EXCEPT !.live = TRUE]] ELSE 0)
  IN [t \in T |-> count(t)]

\* onClose() with the annotation state surviving the editor
Unmount_KeepAnnotations(B) ==
  /\ isEditorOpen' = FALSE
  /\ textInstructions' = Empty
  /\ isSending' = FALSE
  /\ UNCHANGED annotVars
  /\ inflight' = Orphans(B)

\* onClose(), or the CLOSE button: the ImageEditor unmounts and its state is gone
Unmount(B) ==
  /\ isEditorOpen' = FALSE
  /\ textInstructions' = Empty
  /\ isSending' = FALSE
  /\ annotations' = <<>>
  /\ editingTextId' = NoId
  /\ tempText' = Empty
  /\ inflight' = Orphans(B)

\* POLISH TEXT_: enhanceText(accomplishment).then(setAccomplishment)
Polish ==
  /\ variant \in NotifVariants
  /\ ~EditorShown
  /\ variant = "p000" => mode = "image"
  /\ CanStart
  /\ inflight' = inflight (+) One(Inv("polish", "enhanceText", accomplishment,
                                      "", Null, Empty, TRUE))
  /\ Quiet
  /\ UNCHANGED <<constVars, modeVars, accomplishment, textContent, caption,
                 generatedImage, loading, idxFlags, error, notification, logoVars,
                 editorVars, selectedTone, debouncedAccomplishment, timerVars>>

\* PolishOk dropping the response when the field was edited meanwhile
PolishOk_Cancelled(r, reply) ==
  /\ variant \in NotifVariants
  /\ r.h = "polish"
  /\ inflight' = inflight (-) One(r)
  /\ SetAccomplishment(IF accomplishment = r.txt THEN EnhanceText(r.txt, reply)
                        ELSE accomplishment)
  /\ DidStale("polishOk", accomplishment # r.txt)
  /\ UNCHANGED <<constVars, modeVars, textContent, caption, generatedImage, loading,
                 idxFlags, error, notification, logoVars, editorVars,
                 selectedTone, debouncedAccomplishment>>

PolishOk(r, reply) ==
  /\ variant \in NotifVariants
  /\ r.h = "polish"
  /\ inflight' = inflight (-) One(r)
  /\ SetAccomplishment(EnhanceText(r.txt, reply))
  /\ DidStale("polishOk", accomplishment # r.txt)
  /\ UNCHANGED <<constVars, modeVars, textContent, caption, generatedImage, loading,
                 idxFlags, error, notification, logoVars, editorVars,
                 selectedTone, debouncedAccomplishment>>

\* the promise rejected: there is no catch, nothing is told to the user
PolishFail(r) ==
  /\ variant \in NotifVariants
  /\ r.h = "polish"
  /\ inflight' = inflight (-) One(r)
  /\ Did("polishFail")
  /\ UNCHANGED <<constVars, modeVars, accomplishment, textContent, caption,
                 generatedImage, loading, idxFlags, error, notification, logoVars,
                 editorVars, selectedTone, debouncedAccomplishment, timerVars>>

\* handleGenerate, from the Generate button (disabled={loading}) or from
\* REGENERATE_ / NEW VERSION_ in the preview pane (rendered only when not loading)
HandleGenerate ==
  /\ variant \in NotifVariants
  /\ ~EditorShown
  /\ ~loading
  /\ variant = "p000" => mode = "image"
  /\ CanStart
  /\ IF accomplishment = Empty \/ LogoMissing
       THEN UNCHANGED <<loading, generatedImage, notification, inflight>>
       ELSE /\ loading' = TRUE
            /\ generatedImage' = Null
            /\ notification' = IF variant = "p000" THEN notification
                               ELSE NoNotification
            /\ inflight' = inflight (+) One(Inv("handleGenerate",
                   "generateSocialPost", Empty, "", generatedImage,
                   caption, TRUE))
  /\ Did(IF accomplishment = Empty \/ LogoMissing
           THEN "handleGenerateReturn" ELSE "-")
  /\ UNCHANGED <<constVars, modeVars, accomplishment, textContent, caption, idxFlags,
                 error, logoVars, editorVars, selectedTone,
                 debouncedAccomplishment, timerVars>>

\* handleGenerate asking for a caption whatever the caption is
WantsCaption_Always(r) == r.h = "handleGenerate"

\* whether handleGenerate goes on to request a caption once the image is there:
\* part_001 only `if (!caption)`, with the caption of the invoking render
WantsCaption(r) == variant = "p001" => r.cap = Empty

\* generateSocialPost resolved
HandleGenerateImageOk(r, image) ==
  /\ variant \in NotifVariants
  /\ r.h = "handleGenerate"
  /\ r.ph = "generateSocialPost"
  /\ generatedImage' = image
  /\ notification' = Msg(variant, "genOk")
  /\ IF WantsCaption(r)
       THEN /\ inflight' = (inflight (-) One(r))
                           (+) One([r EXCEPT !.ph = "generateCaption"])
            /\ UNCHANGED loading
       ELSE /\ inflight' = inflight (-) One(r)
            /\ loading' = FALSE
  /\ Quiet
  /\ UNCHANGED <<constVars, modeVars, accomplishment, textContent, caption, idxFlags,
                 error, logoVars, editorVars, selectedTone,
                 debouncedAccomplishment, timerVars>>

\* generateCaption resolved
HandleGenerateCaptionOk(r, reply) ==
  /\ variant \in NotifVariants
  /\ r.h = "handleGenerate"
  /\ r.ph = "generateCaption"
  /\ inflight' = inflight (-) One(r)
  /\ caption' = GenerateCaption(reply)
  /\ loading' = FALSE
  /\ Quiet
  /\ UNCHANGED <<constVars, modeVars, accomplishment, textContent, generatedImage,
                 idxFlags, error, notification, logoVars, editorVars,
                 selectedTone, debouncedAccomplishment, timerVars>>

\* HandleGenerateFail going on to the caption request after a failed image
HandleGenerateFail_CaptionAnyway(r) ==
  /\ variant \in NotifVariants
  /\ r.h = "handleGenerate"
  /\ inflight' = IF r.ph = "generateSocialPost"
                   THEN (inflight (-) One(r))
                          (+) One([r EXCEPT !.ph = "generateCaption"])
                   ELSE inflight (-) One(r)
  /\ notification' = Msg(variant, "genFail")
  /\ loading' = (r.ph = "generateSocialPost")
  /\ Did(IF r.ph = "generateSocialPost" THEN "handleGenerateImageFail"
         ELSE "handleGenerateCaptionFail")
  /\ UNCHANGED <<constVars, modeVars, accomplishment, textContent, caption,
                 generatedImage, idxFlags, error, logoVars, editorVars,
                 selectedTone, debouncedAccomplishment, timerVars>>

\* HandleGenerateFail with a catch that also withdraws the image and the caption
HandleGenerateFail_Reset(r) ==
  /\ variant \in NotifVariants
  /\ r.h = "handleGenerate"
  /\ inflight' = inflight (-) One(r)
  /\ notification' = Msg(variant, "genFail")
  /\ loading' = FALSE
  /\ generatedImage' = Null
  /\ caption' = Empty
  /\ Did(IF r.ph = "generateSocialPost" THEN "handleGenerateImageFail"
         ELSE "handleGenerateCaptionFail")
  /\ UNCHANGED <<constVars, modeVars, accomplishment, textContent,
                 idxFlags, error, logoVars, editorVars,
                 selectedTone, debouncedAccomplishment, timerVars>>

\* either await rejected: the one catch of handleGenerate
HandleGenerateFail(r) ==
  /\ variant \in NotifVariants
  /\ r.h = "handleGenerate"
  /\ inflight' = inflight (-) One(r)
  /\ notification' = Msg(variant, "genFail")
  /\ loading' = FALSE
  /\ Did(IF r.ph = "generateSocialPost" THEN "handleGenerateImageFail"
         ELSE "handleGenerateCaptionFail")
  /\ UNCHANGED <<constVars, modeVars, accomplishment, textContent, caption,
                 generatedImage, idxFlags, error, logoVars, editorVars,
                 selectedTone, debouncedAccomplishment, timerVars>>

\* the body of handleAIRefineCaption run in a render with accomplishment `acc`
\* and selectedTone `tone`: what it leaves in loading and inflight
RefineCaption(acc, tone) ==
  IF acc = Empty
    THEN UNCHANGED <<loading, inflight>>
    ELSE /\ loading' = TRUE
         /\ inflight' = inflight (+) One(Inv("handleAIRefineCaption",
                "generateCaption", acc, "", Null, Empty, TRUE))

\* where a button calling handleAIRefineCaption can be pressed
RefineButton ==
  /\ ~EditorShown
  /\ ~loading
  /\ CASE variant = "p001" -> generatedImage # Null
       [] variant = "gs" -> mode = "image" => generatedImage # Null
       [] variant = "p000" -> IF mode = "image" THEN generatedImage # Null
                              ELSE accomplishment # Empty

HandleAIRefineCaption ==
  /\ variant \in NotifVariants
  /\ RefineButton
  /\ CanStart
  /\ RefineCaption(accomplishment, selectedTone)
  /\ Quiet
  /\ UNCHANGED <<constVars, modeVars, accomplishment, textContent, caption,
                 generatedImage, idxFlags, error, notification, logoVars,
                 editorVars, selectedTone, debouncedAccomplishment, timerVars>>

HandleAIRefineCaptionOk(r, reply) ==
  /\ variant \in NotifVariants
  /\ r.h = "handleAIRefineCaption"
  /\ inflight' = inflight (-) One(r)
  /\ caption' = GenerateCaption(reply)
  /\ notification' = Msg(variant, "refineOk")
  /\ loading' = FALSE
  /\ Quiet
  /\ UNCHANGED <<constVars, modeVars, accomplishment, textContent, generatedImage,
                 idxFlags, error, logoVars, editorVars, selectedTone,
                 debouncedAccomplishment, timerVars>>

HandleAIRefineCaptionFail(r) ==
  /\ variant \in NotifVariants
  /\ r.h = "handleAIRefineCaption"
  /\ inflight' = inflight (-) One(r)
  /\ notification' = Msg(variant, "refineFail")
  /\ loading' = FALSE
  /\ Did("handleAIRefineCaptionFail")
  /\ UNCHANGED <<constVars, modeVars, accomplishment, textContent, caption,
                 generatedImage, idxFlags, error, logoVars, editorVars,
                 selectedTone, debouncedAccomplishment, timerVars>>

\* where a button calling handlePostToLinkedIn can be pressed
PostButton ==
  /\ ~EditorShown
  /\ ~loading
  /\ CASE variant = "p001" -> generatedImage # Null
       [] variant = "gs" -> mode = "image" => generatedImage # Null
       [] variant = "p000" -> IF mode = "image" THEN generatedImage # Null
                              ELSE caption # Empty

\* the mode handlePostToLinkedIn publishes in: part_001 has images only
PostMode == IF variant = "p001" THEN "image" ELSE mode

\* the form with the generated image appended whatever the mode
PostForm_AlwaysFile(m, image, cap) ==
  [file |-> image,
   caption |-> cap,
   type |-> IF variant = "p001" THEN Null
            ELSE IF m = "image" THEN "image" ELSE "text_only"]

\* the multipart body: 'file' (the image or Null for no such part), 'caption', 'type'
PostForm(m, image, cap) ==
  [file |-> IF m = "image" /\ image # Null THEN image ELSE Null,
   caption |-> cap,
   type |-> IF variant = "p001" THEN Null
            ELSE IF m = "image" THEN "image" ELSE "text_only"]

HandlePostToLinkedIn ==
  /\ variant \in NotifVariants
  /\ PostButton
  /\ CanStart
  /\ IF PostMode = "image" /\ generatedImage = Null
       THEN UNCHANGED <<loading, inflight>>
       ELSE /\ loading' = TRUE
            /\ LET form == PostForm(PostMode, generatedImage, caption)
               IN inflight' = inflight (+) One(Inv("handlePostToLinkedIn",
                      "webhook", Empty, form.type, form.file, form.caption, TRUE))
  /\ Quiet
  /\ UNCHANGED <<constVars, modeVars, accomplishment, textContent, caption,
                 generatedImage, idxFlags, error, notification, logoVars,
                 editorVars, selectedTone, debouncedAccomplishment, timerVars>>

HandlePostOk(r) ==
  /\ variant \in NotifVariants
  /\ r.h = "handlePostToLinkedIn"
  /\ inflight' = inflight (-) One(r)
  /\ notification' = Msg(variant, "postOk")
  /\ loading' = FALSE
  /\ Quiet
  /\ UNCHANGED <<constVars, modeVars, accomplishment, textContent, caption,
                 generatedImage, idxFlags, error, logoVars, editorVars,
                 selectedTone, debouncedAccomplishment, timerVars>>

HandlePostFail(r) ==
  /\ variant \in NotifVariants
  /\ r.h = "handlePostToLinkedIn"
  /\ inflight' = inflight (-) One(r)
  /\ notification' = Msg(variant, "postFail")
  /\ loading' = FALSE
  /\ Did("handlePostFail")
  /\ UNCHANGED <<constVars, modeVars, accomplishment, textContent, caption,
                 generatedImage, idxFlags, error, logoVars, editorVars,
                 selectedTone, debouncedAccomplishment, timerVars>>

\* geminiService.ts: the "With Image_" / "Text Only_" tabs
SetDistMode(m) ==
  /\ variant = "gs"
  /\ ~EditorShown
  /\ m # mode
  /\ mode' = m
  /\ UNCHANGED storedMode
  /\ Quiet
  /\ UNCHANGED <<constVars, accomplishment, textContent, caption, generatedImage,
                 loading, idxFlags, error, notification, logoVars, editorVars,
                 selectedTone, debouncedAccomplishment, timerVars, inflight>>

-----------------------------------------------------------------------------
(* part_000: useDebounce and the auto-caption effect *)

DebounceDelay == 2000

AutoCaptionMinLength == 10

\* the effect with dependencies [debouncedAccomplishment, appMode, selectedTone],
\* run after a render in which one of them changed to (m, deb, tone)
AutoCaptionEffect(m, deb, tone) ==
  IF m = "text" /\ Len(Trim(deb)) > AutoCaptionMinLength
    THEN RefineCaption(accomplishment', tone)
    ELSE UNCHANGED <<loading, inflight>>

\* whether that effect run would issue a request
AutoCaptionFires(m, deb, acc) ==
  m = "text" /\ Len(Trim(deb)) > AutoCaptionMinLength /\ acc # Empty

\* the setTimeout of useDebounce fires, DebounceDelay ms after the last change
DebounceFire ==
  /\ variant = "p000"
  /\ debounceTimer
  /\ debounceTimer' = FALSE
  /\ elapsed' = 0
  /\ debouncedAccomplishment' = accomplishment
  /\ UNCHANGED <<accomplishment, heldFor>>
  /\ IF accomplishment # debouncedAccomplishment
       THEN /\ AutoCaptionFires(mode, accomplishment, accomplishment) => CanStart
            /\ AutoCaptionEffect(mode, accomplishment, selectedTone)
       ELSE UNCHANGED <<loading, inflight>>
  /\ Quiet
  /\ UNCHANGED <<constVars, modeVars, textContent, caption, generatedImage, idxFlags,
                 error, notification, logoVars, editorVars, selectedTone>>

\* TickMs ms pass while a timeout of useDebounce is pending
Tick ==
  /\ variant = "p000"
  /\ debounceTimer
  /\ elapsed < DebounceDelay
  /\ elapsed' = elapsed + TickMs
  /\ heldFor' = IF heldFor < DebounceDelay THEN heldFor + TickMs ELSE heldFor
  /\ Quiet
  /\ UNCHANGED <<constVars, modeVars, accomplishment, textContent, caption,
                 generatedImage, loading, idxFlags, error, notification, logoVars,
                 editorVars, selectedTone, debouncedAccomplishment, debounceTimer,
                 inflight>>

\* the timeout fires once its delay has passed
DebounceExpire ==
  /\ elapsed >= DebounceDelay
  /\ DebounceFire

\* the effect with dependency [appMode] that never writes the item
PersistMode_Never(m) == UNCHANGED storedMode

\* the effect with dependency [appMode]: localStorage.setItem('barq_mode', appMode)
PersistMode(m) == storedMode' = m

\* the "Image Mode_" / "Text Mode_" buttons of the nav bar
SetAppMode(m) ==
  /\ variant = "p000"
  /\ ~EditorShown
  /\ m # mode
  /\ mode' = m
  /\ PersistMode(m)
  /\ UNCHANGED accomplishment
  /\ AutoCaptionFires(m, debouncedAccomplishment, accomplishment) => CanStart
  /\ AutoCaptionEffect(m, debouncedAccomplishment, selectedTone)
  /\ Quiet
  /\ UNCHANGED <<constVars, textContent, caption, generatedImage, idxFlags, error,
                 notification, logoVars, editorVars, selectedTone,
                 debouncedAccomplishment, timerVars>>

\* the tone buttons of the text mode
SetSelectedTone(t) ==
  /\ variant = "p000"
  /\ mode = "text"
  /\ t # selectedTone
  /\ selectedTone' = t
  /\ UNCHANGED accomplishment
  /\ AutoCaptionFires(mode, debouncedAccomplishment, accomplishment) => CanStart
  /\ AutoCaptionEffect(mode, debouncedAccomplishment, t)
  /\ Quiet
  /\ UNCHANGED <<constVars, modeVars, textContent, caption, generatedImage, idxFlags,
                 error, notification, logoVars, editorVars,
                 debouncedAccomplishment, timerVars>>

-----------------------------------------------------------------------------
(* ImageEditor *)

\* EDIT ASSET_ / Edit Graphic_ in the preview pane
OpenEditor ==
  /\ variant \in NotifVariants
  /\ PreviewShown
  /\ isEditorOpen' = TRUE
  /\ Quiet
  /\ UNCHANGED <<constVars, modeVars, accomplishment, textContent, caption,
                 generatedImage, loading, idxFlags, error, notification, logoVars,
                 textInstructions, isSending, annotVars, selectedTone,
                 debouncedAccomplishment, timerVars, inflight>>

\* no annotation is being typed: a click outside the overlay input blurs it first
NotEditing == editingTextId = NoId

\* CLOSE [X]
CloseEditor ==
  /\ EditorShown
  /\ NotEditing
  /\ Unmount(inflight)
  /\ Quiet
  /\ UNCHANGED <<constVars, modeVars, accomplishment, textContent, caption,
                 generatedImage, loading, idxFlags, error, notification, logoVars,
                 selectedTone, debouncedAccomplishment, timerVars>>

\* the instruction input of the editor
TypeInstructions(v) ==
  /\ EditorShown
  /\ NotEditing
  /\ v # textInstructions
  /\ textInstructions' = v
  /\ Quiet
  /\ UNCHANGED <<constVars, modeVars, accomplishment, textContent, caption,
                 generatedImage, loading, idxFlags, error, notification, logoVars,
                 isEditorOpen, isSending, annotVars, selectedTone,
                 debouncedAccomplishment, timerVars, inflight>>

\* handleMouseDown without `if (editingTextId) return`
HandleMouseDown_NoGuard ==
  /\ variant \in {"p001", "gs"}
  /\ EditorShown
  /\ Len(annotations) < MaxAnnotations
  /\ annotations' = Append(annotations, Empty)
  /\ editingTextId' = Len(annotations) + 1
  /\ tempText' = Empty
  /\ Did("handleMouseDown")
  /\ UNCHANGED <<constVars, modeVars, accomplishment, textContent, caption,
                 generatedImage, loading, idxFlags, error, notification, logoVars,
                 isEditorOpen, textInstructions, isSending, selectedTone,
                 debouncedAccomplishment, timerVars, inflight>>

\* handleMouseDown on the canvas: a new, empty annotation at the pointer, and
\* the overlay input to type its text (where it lands: getCanvasCoords below)
HandleMouseDown ==
  /\ variant \in {"p001", "gs"}
  /\ EditorShown
  /\ IF editingTextId # NoId
       THEN UNCHANGED annotVars
       ELSE /\ Len(annotations) < MaxAnnotations
            /\ annotations' = Append(annotations, Empty)
            /\ editingTextId' = Len(annotations) + 1
            /\ tempText' = Empty
  /\ Did("handleMouseDown")
  /\ UNCHANGED <<constVars, modeVars, accomplishment, textContent, caption,
                 generatedImage, loading, idxFlags, error, notification, logoVars,
                 isEditorOpen, textInstructions, isSending, selectedTone,
                 debouncedAccomplishment, timerVars, inflight>>

\* the overlay input: onChange={e => setTempText(e.target.value)}
TypeTempText(v) ==
  /\ EditorShown
  /\ editingTextId # NoId
  /\ v # tempText
  /\ tempText' = v
  /\ Quiet
  /\ UNCHANGED <<constVars, modeVars, accomplishment, textContent, caption,
                 generatedImage, loading, idxFlags, error, notification, logoVars,
                 isEditorOpen, textInstructions, isSending, annotations,
                 editingTextId, selectedTone, debouncedAccomplishment, timerVars,
                 inflight>>

\* onBlur comparing tempText itself, not tempText.trim(), with ""
BlurTempText_NoTrim ==
  /\ EditorShown
  /\ editingTextId # NoId
  /\ annotations' =
       IF tempText = Empty
         THEN SubSeq(annotations, 1, editingTextId - 1)
                \o SubSeq(annotations, editingTextId + 1, Len(annotations))
         ELSE [annotations EXCEPT ![editingTextId] = tempText]
  /\ editingTextId' = NoId
  /\ Quiet
  /\ UNCHANGED <<constVars, modeVars, accomplishment, textContent, caption,
                 generatedImage, loading, idxFlags, error, notification, logoVars,
                 isEditorOpen, textInstructions, isSending, tempText,
                 selectedTone, debouncedAccomplishment, timerVars, inflight>>

\* onBlur of the overlay input (Enter, or a click elsewhere): an empty text
\* drops the annotation, any other text becomes its text
BlurTempText ==
  /\ EditorShown
  /\ editingTextId # NoId
  /\ annotations' =
       IF Trim(tempText) = Empty
         THEN SubSeq(annotations, 1, editingTextId - 1)
                \o SubSeq(annotations, editingTextId + 1, Len(annotations))
         ELSE [annotations EXCEPT ![editingTextId] = tempText]
  /\ editingTextId' = NoId
  /\ Quiet
  /\ UNCHANGED <<constVars, modeVars, accomplishment, textContent, caption,
                 generatedImage, loading, idxFlags, error, notification, logoVars,
                 isEditorOpen, textInstructions, isSending, tempText,
                 selectedTone, debouncedAccomplishment, timerVars, inflight>>

\* what lets handleFinalSend be invoked: the Apply button (disabled={isSending};
\* part_000: disabled={isSending || !textInstructions.trim()}) or, in part_000,
\* the Enter key in the instruction input, which checks nothing
FinalSendTrigger(key) ==
  IF key = "Enter" THEN variant = "p000"
  ELSE /\ ~isSending
       /\ variant = "p000" => Trim(textInstructions) # Empty

\* handleFinalSend up to `await new Promise(img.onload / img.onerror)`
HandleFinalSend(key) ==
  /\ EditorShown
  /\ NotEditing
  /\ FinalSendTrigger(key)
  /\ CanStart
  /\ isSending' = TRUE
  /\ inflight' = inflight (+) One(Inv("handleFinalSend", "imageLoad",
                     Trim(textInstructions), "", generatedImage, Empty, TRUE))
  /\ Quiet
  /\ UNCHANGED <<constVars, modeVars, accomplishment, textContent, caption,
                 generatedImage, loading, idxFlags, error, notification, logoVars,
                 isEditorOpen, textInstructions, annotVars, selectedTone,
                 debouncedAccomplishment, timerVars>>

\* part_001 and geminiService.ts draw `canvasRef.current!` onto the export
\* canvas: once the editor is unmounted the ref is null, drawImage throws, and
\* the invocation ends in its catch without calling onSend
ExportThrows(r) == variant \in {"p001", "gs"} /\ ~r.live

\* the image loaded: the canvas is exported and onSend is called, which sets
\* loading and awaits sendEditToWebhook
HandleFinalSendLoaded(r) ==
  /\ r.h = "handleFinalSend"
  /\ r.ph = "imageLoad"
  /\ IF ExportThrows(r)
       THEN /\ inflight' = inflight (-) One(r)
            /\ UNCHANGED loading
       ELSE /\ loading' = TRUE
            /\ inflight' = (inflight (-) One(r)) (+) One([r EXCEPT !.ph = "sendEdit"])
  /\ Quiet
  /\ UNCHANGED <<constVars, modeVars, accomplishment, textContent, caption,
                 generatedImage, idxFlags, error, notification, logoVars,
                 editorVars, selectedTone, debouncedAccomplishment, timerVars>>

\* img.onerror: caught by handleFinalSend, logged to the console only
HandleFinalSendLoadError(r) ==
  /\ r.h = "handleFinalSend"
  /\ r.ph = "imageLoad"
  /\ inflight' = inflight (-) One(r)
  /\ isSending' = IF r.live THEN FALSE ELSE isSending
  /\ Did("handleFinalSendLoadError")
  /\ UNCHANGED <<constVars, modeVars, accomplishment, textContent, caption,
                 generatedImage, loading, idxFlags, error, notification, logoVars,
                 isEditorOpen, textInstructions, annotVars, selectedTone,
                 debouncedAccomplishment, timerVars>>

\* what sendEditToWebhook resolves with: a data URL, or nothing
EditReplies == EditedImages \cup {""}

\* onSend without `if (webhookResult)`: whatever the webhook returns is shown
HandleSendEditOk_NoCheck(r, res) ==
  /\ r.h = "handleFinalSend"
  /\ r.ph = "sendEdit"
  /\ generatedImage' = (IF res = "" THEN Null ELSE res)
  /\ notification' = Msg(variant, "editOk")
  /\ loading' = FALSE
  /\ Unmount(inflight (-) One(r))
  /\ discarded' = annotations
  /\ Quiet
  /\ UNCHANGED <<variant, canvasVars, styleRef, modeVars, accomplishment,
                 textContent, caption, idxFlags,
                 error, logoVars, selectedTone, debouncedAccomplishment,
                 timerVars>>

\* sendEditToWebhook resolved: onSend returns, handleFinalSend calls onClose()
HandleSendEditOk(r, res) ==
  /\ r.h = "handleFinalSend"
  /\ r.ph = "sendEdit"
  /\ IF res # ""
       THEN /\ generatedImage' = res
            /\ notification' = Msg(variant, "editOk")
       ELSE UNCHANGED <<generatedImage, notification>>
  /\ loading' = FALSE
  /\ Unmount(inflight (-) One(r))
  /\ discarded' = annotations
  /\ Quiet
  /\ UNCHANGED <<variant, canvasVars, styleRef, modeVars, accomplishment,
                 textContent, caption, idxFlags,
                 error, logoVars, selectedTone, debouncedAccomplishment,
                 timerVars>>

\* sendEditToWebhook rejected: onSend catches it and returns normally, so
\* handleFinalSend calls onClose() all the same
HandleSendEditFail(r) ==
  /\ r.h = "handleFinalSend"
  /\ r.ph = "sendEdit"
  /\ notification' = Msg(variant, "editFail")
  /\ loading' = FALSE
  /\ Unmount(inflight (-) One(r))
  /\ discarded' = annotations
  /\ Did("handleSendEditFail")
  /\ UNCHANGED <<variant, canvasVars, styleRef, modeVars, accomplishment,
                 textContent, caption,
                 generatedImage, idxFlags, error, logoVars, selectedTone,
                 debouncedAccomplishment, timerVars>>

-----------------------------------------------------------------------------
NextIndex ==
  \/ \E t \in {"image", "text"} : SetActiveTab(t)
  \/ \E v \in UserTexts : TypeTextContent(v)
  \/ \E t \in {"image", "text"} : IdxHandleEnhance(t)
  \/ \E r \in Pending, reply \in TextReplies : IdxHandleEnhanceOk(r, reply)
  \/ \E r \in Pending : IdxHandleEnhanceFail(r)
  \/ IdxHandleGenerateCaption
  \/ \E r \in Pending, reply \in CaptionReplies : IdxHandleGenerateCaptionOk(r, reply)
  \/ \E r \in Pending : IdxHandleGenerateCaptionFail(r)
  \/ IdxHandleEnhanceCaption
  \/ \E r \in Pending, reply \in TextReplies : IdxHandleEnhanceCaptionOk(r, reply)
  \/ \E r \in Pending : IdxHandleEnhanceCaptionFail(r)
  \/ IdxHandleGenerate
  \/ \E r \in Pending, image \in GeneratedImages : IdxHandleGenerateOk(r, image)
  \/ \E r \in Pending : IdxHandleGenerateFail(r)
  \/ IdxPostButton /\ IdxHandlePostToLinkedIn
  \/ \E r \in Pending : IdxPostImageSend(r)
  \/ \E r \in Pending : IdxHandlePostOk(r)
  \/ \E r \in Pending : IdxHandlePostFail(r)

NextNotif ==
  \/ Polish
  \/ \E r \in Pending, reply \in TextReplies : PolishOk(r, reply)
  \/ \E r \in Pending : PolishFail(r)
  \/ HandleGenerate
  \/ \E r \in Pending, image \in GeneratedImages : HandleGenerateImageOk(r, image)
  \/ \E r \in Pending, reply \in CaptionReplies : HandleGenerateCaptionOk(r, reply)
  \/ \E r \in Pending : HandleGenerateFail(r)
  \/ HandleAIRefineCaption
  \/ \E r \in Pending, reply \in CaptionReplies : HandleAIRefineCaptionOk(r, reply)
  \/ \E r \in Pending : HandleAIRefineCaptionFail(r)
  \/ HandlePostToLinkedIn
  \/ \E r \in Pending : HandlePostOk(r)
  \/ \E r \in Pending : HandlePostFail(r)

NextEditor ==
  \/ OpenEditor
  \/ CloseEditor
  \/ \E v \in UserTexts : TypeInstructions(v)
  \/ \E key \in {"Apply", "Enter"} : HandleFinalSend(key)
  \/ \E r \in Pending : HandleFinalSendLoaded(r)
  \/ \E r \in Pending : HandleFinalSendLoadError(r)
  \/ \E r \in Pending, res \in EditReplies : HandleSendEditOk(r, res)
  \/ \E r \in Pending : HandleSendEditFail(r)

NextLogo ==
  \/ FetchLogoOk
  \/ FetchLogoFail

NextType ==
  \/ \E v \in Accomplishments : TypeAccomplishment(v)
  \/ \E v \in UserTexts : TypeCaption(v)

NextGs ==
  \E m \in {"image", "text"} : SetDistMode(m)

NextDebounce ==
  \/ DebounceFire
  \/ \E m \in {"image", "text"} : SetAppMode(m)
  \/ \E t \in Tones : SetSelectedTone(t)

Next ==
  \/ NextLogo
  \/ NextType
  \/ NextIndex
  \/ NextNotif
  \/ NextGs
  \/ NextEditor

NextAll ==
  \/ Next
  \/ NextDebounce

Spec == Init /\ [][Next]_vars

SpecAll == InitAll /\ [][NextAll]_vars

\* part_000 with the clock followed: the form, the debounce timer and the
\* caption requests of the text mode
NextTimed ==
  \/ NextLogo
  \/ NextType
  \/ Polish
  \/ \E r \in Pending, reply \in TextReplies : PolishOk(r, reply)
  \/ \E r \in Pending : PolishFail(r)
  \/ HandleAIRefineCaption
  \/ \E r \in Pending, reply \in CaptionReplies : HandleAIRefineCaptionOk(r, reply)
  \/ \E r \in Pending : HandleAIRefineCaptionFail(r)
  \/ \E m \in {"image", "text"} : SetAppMode(m)
  \/ \E t \in Tones : SetSelectedTone(t)
  \/ Tick
  \/ DebounceExpire

SpecTimed == InitP000 /\ [][NextTimed]_vars

-----------------------------------------------------------------------------
(* ImageEditor of part_001 and geminiService.ts: pointer to canvas coordinates *)

INTERNAL_WIDTH == 1080

INTERNAL_HEIGHT == 1350

\* displayed widths of the canvas, in CSS pixels; resize() keeps it at 4:5
CanvasWidths == {4, 268, 400, 460, 532, 1080}

CanvasRects == {[width |-> w, height |-> (w * 5) \div 4] : w \in CanvasWidths}

\* getCanvasCoords for a pointer at (rect.left + dx, rect.top + dy)
getCanvasCoords(dx, dy, rect) ==
  LET scaleX == FloatDiv(INTERNAL_WIDTH, rect.width)
      scaleY == FloatDiv(INTERNAL_HEIGHT, rect.height)
  IN [x |-> FloatMul(dx, scaleX), y |-> FloatMul(dy, scaleY)]

\* the editor is open on a generated image and its canvas is laid out
InitCoords ==
  /\ variant \in {"p001", "gs"}
  /\ mode = "image"
  /\ storedMode = Null
  /\ accomplishment = Long
  /\ textContent = Empty
  /\ caption = Empty
  /\ generatedImage \in GeneratedImages
  /\ loading = FALSE
  /\ enhancing = FALSE
  /\ generatingCaption = FALSE
  /\ enhancingCaption = FALSE
  /\ posting = FALSE
  /\ error = Null
  /\ notification = NoNotification
  /\ logoBase64 = LogoDataURL
  /\ logoFetch = "loaded"
  /\ isEditorOpen = TRUE
  /\ textInstructions = Empty
  /\ isSending = FALSE
  /\ annotations = <<>>
  /\ editingTextId = NoId
  /\ tempText = Empty
  /\ discarded = <<>>
  /\ selectedTone = "Corporate Professional"
  /\ debouncedAccomplishment = Empty
  /\ debounceTimer = FALSE
  /\ elapsed = 0
  /\ heldFor = 0
  /\ styleRef = Null
  /\ canvasRect \in CanvasRects
  /\ coords = <<>>
  /\ inflight = EmptyBag
  /\ last = [op |-> "-", stale |-> FALSE]

\* the window is resized: resize() lays the canvas out again
Resize(rect) ==
  /\ EditorShown
  /\ canvasRect # NoRect
  /\ rect # canvasRect
  /\ canvasRect' = rect
  /\ UNCHANGED <<variant, discarded, styleRef, coords, modeVars, accomplishment, textContent, caption,
                 generatedImage, loading, idxFlags, error, notification, logoVars,
                 editorVars, selectedTone, debouncedAccomplishment, timerVars,
                 inflight, last>>

\* handleMouseDown with the pointer at (dx, dy) from the canvas's top left corner
MouseDownAt(dx, dy) ==
  /\ EditorShown
  /\ canvasRect # NoRect
  /\ coords' = <<[dx |-> dx, dy |-> dy, rect |-> canvasRect,
                  to |-> getCanvasCoords(dx, dy, canvasRect)]>>
  /\ UNCHANGED <<variant, discarded, styleRef, canvasRect, modeVars, accomplishment, textContent, caption,
                 generatedImage, loading, idxFlags, error, notification, logoVars,
                 editorVars, selectedTone, debouncedAccomplishment, timerVars,
                 inflight, last>>

NextCoords ==
  \/ \E rect \in CanvasRects : Resize(rect)
  \/ \E dx \in {0, 1, canvasRect.width \div 2, canvasRect.width},
        dy \in {0, 1, canvasRect.height \div 2, canvasRect.height} :
        MouseDownAt(dx, dy)

SpecCoords == InitCoords /\ [][NextCoords]_vars

-----------------------------------------------------------------------------
(* part_000: the style reference *)

ImagePrefix == <<"i", "m", "a", "g", "e", "/">>

\* String.prototype.startsWith
StartsWith(str, prefix) ==
  /\ Len(str) >= Len(prefix)
  /\ SubSeq(str, 1, Len(prefix)) = prefix

\* files the user may drop or pick: their MIME type and what a FileReader
\* makes of them
Files ==
  { [type |-> ImagePrefix \o <<"p", "n", "g">>, data |-> "refA"],
    [type |-> ImagePrefix \o <<"g", "i", "f">>, data |-> "refB"],
    [type |-> <<"t", "e", "x", "t", "/", "c", "s", "v">>, data |-> "csv"],
    [type |-> <<"i", "m", "a", "g", "e">>, data |-> "odd"],
    [type |-> <<>>, data |-> "unknown"] }

ErrNotImage == Failure("Please upload an image file")

\* the drop zone and its file input are rendered: image mode, no style reference
DropZoneShown ==
  /\ variant = "p000"
  /\ mode = "image"
  /\ ~EditorShown
  /\ styleRef = Null

\* processFile reading whatever file it is given
ProcessFile_NoCheck(file) ==
  /\ DropZoneShown
  /\ CanStart
  /\ inflight' = inflight (+) One(Inv("processFile", "readAsDataURL", Empty, "",
                                      file.data, Empty, TRUE))
  /\ Did("processFile")
  /\ UNCHANGED <<variant, discarded, canvasVars, styleRef, notification, modeVars,
                 accomplishment, textContent, caption, generatedImage, loading,
                 idxFlags, error, logoVars, editorVars, selectedTone,
                 debouncedAccomplishment, timerVars>>

\* handleDrop / handleStyleRef with a file: processFile
ProcessFile(file) ==
  /\ DropZoneShown
  /\ CanStart
  /\ IF ~StartsWith(file.type, ImagePrefix)
       THEN /\ notification' = ErrNotImage
            /\ UNCHANGED inflight
       ELSE /\ inflight' = inflight (+) One(Inv("processFile", "readAsDataURL",
                                                Empty, "", file.data, Empty, TRUE))
            /\ UNCHANGED notification
  /\ Did("processFile")
  /\ UNCHANGED <<variant, discarded, canvasVars, styleRef, modeVars, accomplishment,
                 textContent, caption, generatedImage, loading, idxFlags, error,
                 logoVars, editorVars, selectedTone, debouncedAccomplishment,
                 timerVars>>

\* reader.onloadend: setStyleRef(reader.result), null when the read failed
FileLoadEnd(r, ok) ==
  /\ variant = "p000"
  /\ r.h = "processFile"
  /\ inflight' = inflight (-) One(r)
  /\ styleRef' = IF ok THEN r.img ELSE Null
  /\ Quiet
  /\ UNCHANGED <<variant, discarded, canvasVars, notification, modeVars, accomplishment,
                 textContent, caption, generatedImage, loading, idxFlags, error,
                 logoVars, editorVars, selectedTone, debouncedAccomplishment,
                 timerVars>>

\* the remove button over the style reference
HandleRemoveStyleRef ==
  /\ variant = "p000"
  /\ mode = "image"
  /\ ~EditorShown
  /\ styleRef # Null
  /\ styleRef' = Null
  /\ notification' = Success("Style Reference Cleared")
  /\ Quiet
  /\ UNCHANGED <<variant, discarded, canvasVars, modeVars, accomplishment, textContent,
                 caption, generatedImage, loading, idxFlags, error, logoVars,
                 editorVars, selectedTone, debouncedAccomplishment, timerVars,
                 inflight>>

\* part_000: the form of the image mode with its style reference
NextStyle ==
  \/ NextLogo
  \/ NextType
  \/ \E m \in {"image", "text"} : SetAppMode(m)
  \/ \E file \in Files : ProcessFile(file)
  \/ \E r \in Pending, ok \in BOOLEAN : FileLoadEnd(r, ok)
  \/ HandleRemoveStyleRef

SpecStyle == InitP000 /\ [][NextStyle]_vars

\* part_001 and geminiService.ts with the annotations of the editor
NextAnnotate ==
  \/ NotEditing /\ HandleMouseDown
  \/ \E v \in AnnotationTexts : TypeTempText(v)
  \/ BlurTempText

NextEditing ==
  \/ NextLogo
  \/ NextType
  \/ NextNotif
  \/ NextGs
  \/ NextEditor
  \/ NextAnnotate

SpecEditing == InitEditing /\ [][NextEditing]_vars

\* part_001 and geminiService.ts: an image is generated and edited, with
\* handleMouseDown also called while the overlay input is shown
NextOverlay ==
  \/ NextLogo
  \/ \E v \in Accomplishments : TypeAccomplishment(v)
  \/ HandleGenerate
  \/ \E r \in Pending, image \in GeneratedImages : HandleGenerateImageOk(r, image)
  \/ \E r \in Pending, reply \in CaptionReplies : HandleGenerateCaptionOk(r, reply)
  \/ \E r \in Pending : HandleGenerateFail(r)
  \/ NextEditor
  \/ NextAnnotate
  \/ HandleMouseDown

SpecOverlay == InitEditing /\ [][NextOverlay]_vars

-----------------------------------------------------------------------------
(* The page is loaded again: a new session of the app *)

\* the page is reloaded: App mounts afresh, every pending callback of the old
\* page is gone, and only localStorage is what it was
Reload ==
  /\ mode' = (IF variant = "p000" THEN storedMode ELSE "image")
  /\ accomplishment' = Empty
  /\ textContent' = Empty
  /\ caption' = Empty
  /\ generatedImage' = Null
  /\ loading' = FALSE
  /\ enhancing' = FALSE
  /\ generatingCaption' = FALSE
  /\ enhancingCaption' = FALSE
  /\ posting' = FALSE
  /\ error' = Null
  /\ notification' = NoNotification
  /\ logoBase64' = Null
  /\ logoFetch' = "pending"
  /\ isEditorOpen' = FALSE
  /\ textInstructions' = Empty
  /\ isSending' = FALSE
  /\ annotations' = <<>>
  /\ editingTextId' = NoId
  /\ tempText' = Empty
  /\ discarded' = <<>>
  /\ selectedTone' = "Corporate Professional"
  /\ debouncedAccomplishment' = Empty
  /\ debounceTimer' = (variant = "p000")
  /\ elapsed' = 0
  /\ heldFor' = 0
  /\ styleRef' = Null
  /\ inflight' = EmptyBag
  /\ Did("reload")
  /\ UNCHANGED <<variant, storedMode, canvasVars>>

\* the four variants: the form, the mode switches, the generation of an image
\* and the reload of the page
NextReload ==
  \/ NextLogo
  \/ NextType
  \/ \E t \in {"image", "text"} : SetActiveTab(t)
  \/ \E v \in UserTexts : TypeTextContent(v)
  \/ \E m \in {"image", "text"} : SetDistMode(m)
  \/ \E m \in {"image", "text"} : SetAppMode(m)
  \/ IdxHandleGenerate
  \/ \E r \in Pending, image \in GeneratedImages : IdxHandleGenerateOk(r, image)
  \/ \E r \in Pending : IdxHandleGenerateFail(r)
  \/ HandleGenerate
  \/ \E r \in Pending, image \in GeneratedImages : HandleGenerateImageOk(r, image)
  \/ \E r \in Pending, reply \in CaptionReplies : HandleGenerateCaptionOk(r, reply)
  \/ \E r \in Pending : HandleGenerateFail(r)
  \/ Reload

SpecReload == InitAll /\ [][NextReload]_vars

-----------------------------------------------------------------------------
(* index.tsx generating with whatever logo and style reference it holds *)

\* App of index.tsx once the logo is read, with a logo and a style reference
\* drawn from the data URLs named above
InitBlob ==
  /\ variant = "index"
  /\ mode = "image"
  /\ storedMode = Null
  /\ accomplishment = Empty
  /\ textContent = Empty
  /\ caption = Empty
  /\ generatedImage = Null
  /\ loading = FALSE
  /\ enhancing = FALSE
  /\ generatingCaption = FALSE
  /\ enhancingCaption = FALSE
  /\ posting = FALSE
  /\ error = Null
  /\ notification = NoNotification
  /\ logoBase64 \in {"logo", "noType", "emptyBlob", "plain", "noPayload",
                     "badChar", "badLength"}
  /\ logoFetch = "loaded"
  /\ isEditorOpen = FALSE
  /\ textInstructions = Empty
  /\ isSending = FALSE
  /\ annotations = <<>>
  /\ editingTextId = NoId
  /\ tempText = Empty
  /\ discarded = <<>>
  /\ selectedTone = "Corporate Professional"
  /\ debouncedAccomplishment = Empty
  /\ debounceTimer = FALSE
  /\ elapsed = 0
  /\ heldFor = 0
  /\ styleRef \in {Null, "refA", "refB", "noType", "emptyBlob", "plain",
                   "noPayload", "badChar", "badLength"}
  /\ canvasRect = NoRect
  /\ coords = <<>>
  /\ inflight = EmptyBag
  /\ last = [op |-> "mount", stale |-> FALSE]

NextBlob ==
  \/ NextType
  \/ IdxHandleGenerate
  \/ \E r \in Pending, image \in GeneratedImages : IdxHandleGenerateOk(r, image)
  \/ \E r \in Pending : IdxHandleGenerateFail(r)

SpecBlob == InitBlob /\ [][NextBlob]_vars

\* index.tsx with handlePostToLinkedIn also called directly, whatever the
\* markup disables: the handler's own validation is then the only guard
NextHandlers ==
  \/ Next
  \/ IdxHandlePostToLinkedIn

SpecHandlers == Init /\ [][NextHandlers]_vars

-----------------------------------------------------------------------------
(* The claims of the specification, each stated over the model above *)

\* C1 (as the specification states it): when the image-generation request of
\* handleGenerate fails, the generated image and the caption shown afterwards
\* are the ones that were shown when Generate was invoked.
C1_FailedGenerateRestoresPriorState ==
  [][\A r \in Pending :
       (IdxHandleGenerateFail(r)
          \/ (HandleGenerateFail(r) /\ r.ph = "generateSocialPost"))
       => generatedImage' = r.img /\ caption' = r.cap]_vars

\* C2 (as the specification states it): every failed network call (logo load,
\* enhance/polish, caption generation, image generation, edit, publish) ends
\* with an error message or an error notification set.
C2_EveryFailureIsShown ==
  last.op \in {"FetchLogoFail", "handleEnhanceFail", "polishFail",
               "handleGenerateCaptionFail", "handleEnhanceCaptionFail",
               "handleAIRefineCaptionFail", "handleGenerateFail",
               "handleGenerateImageFail", "handleSendEditFail", "handlePostFail"}
    => error # Null \/ notification.type = "error"

\* C3 (as the specification states it): no state is fatal; after a failed logo
\* load, Generate with an accomplishment entered still passes its validation
\* and sends the image-generation request.
C3_GenerateWorksAfterLogoFailure ==
  logoFetch = "failed" /\ accomplishment # Empty => ~LogoMissing

\* C4: a busy flag is true only while an invocation that set it is still
\* suspended, so with every request settled no flag is left true; and in the
\* step in which an invocation ends, its request having settled with success
\* or with failure, the flag its handler had set is false again.
C4_BusyFlagsReset ==
  /\ [](/\ enhancing => \E r \in Pending : r.h = "handleEnhance"
        /\ generatingCaption => \E r \in Pending : r.h = "handleGenerateCaption"
        /\ enhancingCaption => \E r \in Pending : r.h = "handleEnhanceCaption"
        /\ posting => \E r \in Pending : r.h = "handlePostToLinkedIn"
        /\ loading => \E r \in Pending :
                        \/ r.h \in {"handleGenerate", "handleAIRefineCaption",
                                    "handlePostToLinkedIn"}
                        \/ r.h = "handleFinalSend" /\ r.ph = "sendEdit"
        /\ isSending => \E r \in Pending : r.h = "handleFinalSend" /\ r.live)
  /\ [][\A r \in Pending :
          (/\ CopiesIn(r, inflight') < CopiesIn(r, inflight)
           /\ BagCardinality(inflight') < BagCardinality(inflight))
          => CASE r.h = "handleEnhance" -> ~enhancing'
               [] r.h = "handleGenerateCaption" -> ~generatingCaption'
               [] r.h = "handleEnhanceCaption" -> ~enhancingCaption'
               [] r.h = "handlePostToLinkedIn" ->
                    IF variant = "index" THEN ~posting' ELSE ~loading'
               [] r.h \in {"handleGenerate", "handleAIRefineCaption"} -> ~loading'
               [] r.h = "handleFinalSend" ->
                    /\ r.ph = "sendEdit" => ~loading'
                    /\ r.live => ~isSending'
               [] OTHER -> TRUE]_vars

\* a request failed and the flag of its handler is down again
C4_Witness ==
  /\ last.op = "handlePostFail"
  /\ ~posting /\ ~loading
  /\ inflight = EmptyBag

C6_EnhanceResponseOverwrites ==
  [][\A r \in Pending, reply \in TextReplies :
       /\ PolishOk(r, reply) => accomplishment' = EnhanceText(r.txt, reply)
       /\ IdxHandleEnhanceOk(r, reply) =>
            IF r.aux = "image" THEN accomplishment' = EnhanceText(r.txt, reply)
                               ELSE textContent' = EnhanceText(r.txt, reply)]_vars

\* the user cleared the field while the request was in flight, and the
\* response replaced the edit
C6_Witness ==
  /\ last.op \in {"polishOk", "handleEnhanceOk"}
  /\ last.stale
  /\ accomplishment = AIText

\* C7 (as the specification states it): an image publish request is sent only
\* in a state where generatedImage is non-null.
C7_PublishOnlyWithImage ==
  [][/\ \A r \in Pending : IdxPostImageSend(r) => generatedImage # Null
     /\ HandlePostToLinkedIn /\ PostMode = "image" /\ inflight' # inflight
          => generatedImage # Null]_vars

\* C8: a caption request of handleGenerate comes into flight only in the step
\* in which the image request of the same invocation succeeded; the step in
\* which the image request fails issues none.
C8_CaptionOnlyAfterImage ==
  [][LET issued == {q \in BagToSet(inflight') :
                      /\ q.h = "handleGenerate"
                      /\ q.ph = "generateCaption"
                      /\ CopiesIn(q, inflight') > CopiesIn(q, inflight)}
     IN /\ \A q \in issued :
             \E r \in Pending, image \in GeneratedImages :
                /\ r.ph = "generateSocialPost"
                /\ q = [r EXCEPT !.ph = "generateCaption"]
                /\ HandleGenerateImageOk(r, image)
        /\ last'.op = "handleGenerateImageFail" => issued = {}]_vars

\* the image of an invocation is there and its caption request is in flight
C8_Witness ==
  /\ variant = "gs"
  /\ generatedImage \in GeneratedImages
  /\ \E r \in Pending : r.h = "handleGenerate" /\ r.ph = "generateCaption"

\* C9: the step in which a request fails puts no request in flight (one
\* request fewer is in flight afterwards), and a step that takes an
\* invocation out of its await either ends it or lets it issue its one next
\* request, never the same request again.
C9_NoRetries ==
  [][/\ last'.op \in {"handleEnhanceFail", "polishFail",
                      "handleGenerateCaptionFail", "handleEnhanceCaptionFail",
                      "handleAIRefineCaptionFail", "handleGenerateFail",
                      "handleGenerateImageFail", "handleSendEditFail",
                      "handleFinalSendLoadError", "handlePostFail"}
          => BagCardinality(inflight') = BagCardinality(inflight) - 1
     /\ \A r \in Pending :
          CopiesIn(r, inflight') < CopiesIn(r, inflight)
          => \/ BagCardinality(inflight') < BagCardinality(inflight)
             \/ /\ BagCardinality(inflight') = BagCardinality(inflight)
                /\ \E q \in BagToSet(inflight') :
                      /\ q.h = r.h
                      /\ q.ph # r.ph \/ q.live # r.live
                      /\ CopiesIn(q, inflight') > CopiesIn(q, inflight)]_vars

\* a caption request failed and nothing is in flight afterwards
C9_Witness ==
  /\ last.op = "handleAIRefineCaptionFail"
  /\ notification.type = "error"
  /\ inflight = EmptyBag

\* C10: when the accomplishment is empty or the logo is not loaded,
\* handleGenerate sends no request and leaves loading, generatedImage and
\* caption as they are; in index.tsx it sets one of its two error messages.
C10_GenerateValidation ==
  [][accomplishment = Empty \/ logoBase64 = Null =>
       /\ IdxHandleGenerate =>
            /\ UNCHANGED <<inflight, loading, generatedImage, caption>>
            /\ error' = IF accomplishment = Empty THEN ErrNoAccomplishment
                        ELSE ErrLogoLoading
       /\ HandleGenerate =>
            UNCHANGED <<inflight, loading, generatedImage, caption>>]_vars

\* Generate was pressed with an accomplishment entered and no logo loaded
C10_Witness ==
  /\ last.op = "handleGenerateReturn"
  /\ accomplishment # Empty
  /\ logoBase64 = Null
  /\ error = ErrLogoLoading
  /\ inflight = EmptyBag

\* C11: in index.tsx no request to the text webhook in flight carries an empty
\* text; and when handlePostToLinkedIn runs on the text tab with textContent
\* empty, it sets its error message, leaves posting as it is (false) and
\* issues no request.
C11_TextPublishValidation ==
  /\ [](variant = "index" =>
          \A r \in Pending :
             r.h = "handlePostToLinkedIn" /\ r.aux = "text" => r.txt # Empty)
  /\ [][IdxHandlePostToLinkedIn /\ mode = "text" /\ textContent = Empty
         => /\ error' = ErrNoText
            /\ posting' = posting
            /\ ~posting => ~posting'
            /\ inflight' = inflight]_vars

\* Post was invoked on the text tab with no text: the message is up, nothing
\* is posting, nothing is in flight
C11_Witness ==
  /\ variant = "index"
  /\ mode = "text"
  /\ textContent = Empty
  /\ error = ErrNoText
  /\ ~posting
  /\ inflight = EmptyBag

\* C12: the timeout of useDebounce hands over a value only when accomplishment
\* has kept it for the full 2000 ms, and the value handed over is the current
\* one; every change of accomplishment restarts the delay and emits nothing,
\* so a value replaced within 2000 ms is never emitted.
C12_DebounceTiming ==
  [][/\ (debounceTimer /\ ~debounceTimer') \/
        debouncedAccomplishment' # debouncedAccomplishment
          => /\ heldFor >= DebounceDelay
             /\ accomplishment' = accomplishment
             /\ debouncedAccomplishment' = accomplishment
     /\ accomplishment' # accomplishment
          => /\ debounceTimer' /\ elapsed' = 0
             /\ debouncedAccomplishment' = debouncedAccomplishment]_vars

\* a text was emitted after its delay; the field was then cleared and the
\* update to the empty text is still pending, half of the delay gone
C12_Witness ==
  /\ variant = "p000"
  /\ debouncedAccomplishment = Long
  /\ accomplishment = Empty
  /\ debounceTimer
  /\ elapsed = TickMs
  /\ heldFor = TickMs

\* C13 (as the specification states it): for a pointer inside the displayed
\* canvas, 0 <= dx <= w and 0 <= dy <= h, the coordinates getCanvasCoords
\* returns lie in [0,1080] x [0,1350], and the corners of the displayed canvas
\* go to the corners of the internal canvas.
C13_CanvasCoordsInRange ==
  \A i \in DOMAIN coords :
    LET c == coords[i]
    IN /\ FloatCmpInt(c.to.x, 0) >= 0
       /\ FloatCmpInt(c.to.x, INTERNAL_WIDTH) <= 0
       /\ FloatCmpInt(c.to.y, 0) >= 0
       /\ FloatCmpInt(c.to.y, INTERNAL_HEIGHT) <= 0
       /\ c.dx = 0 => FloatCmpInt(c.to.x, 0) = 0
       /\ c.dy = 0 => FloatCmpInt(c.to.y, 0) = 0
       /\ c.dx = c.rect.width => FloatCmpInt(c.to.x, INTERNAL_WIDTH) = 0
       /\ c.dy = c.rect.height => FloatCmpInt(c.to.y, INTERNAL_HEIGHT) = 0

\* C14: processFile starts a read only for a file whose MIME type starts with
\* "image/"; for any other file it sets the error notification and leaves
\* styleRef and the reads in flight as they are.  So whatever is being read,
\* or is in styleRef, comes from an image file.
C14_StyleRefValidation ==
  /\ [](LET imageData == {f.data : f \in {g \in Files : StartsWith(g.type, ImagePrefix)}}
        IN /\ styleRef # Null => styleRef \in imageData
           /\ \A r \in Pending : r.h = "processFile" => r.img \in imageData)
  /\ [][\A file \in Files :
          ProcessFile(file) /\ ~StartsWith(file.type, ImagePrefix)
          => /\ styleRef' = styleRef
             /\ inflight' = inflight
             /\ notification' = ErrNotImage]_vars

\* a file that is not an image was dropped while an image was being read: the
\* message is up and the image became the style reference
C14_Witness ==
  /\ variant = "p000"
  /\ notification = ErrNotImage
  /\ styleRef = "refA"
  /\ inflight = EmptyBag

\* C15: annotations live in the state of one mounted editor only.  With no
\* editor shown there are none; every editor that opens starts with an empty
\* list, whatever the session before it held; and no text field of App ever
\* holds an annotation text.
C15_AnnotationsDiscarded ==
  /\ [](/\ ~EditorShown => annotations = <<>> /\ editingTextId = NoId
        /\ accomplishment # Note /\ caption # Note /\ textContent # Note)
  /\ [][~EditorShown /\ EditorShown' => annotations' = <<>>]_vars

\* an editor open with an empty list, after an Apply closed a session that
\* had an annotation
C15_Witness ==
  /\ EditorShown
  /\ annotations = <<>>
  /\ discarded = <<Note>>

C18_FailedEditKeepsEditor ==
  [][\A r \in Pending :
       HandleSendEditFail(r) /\ r.live =>
         /\ isEditorOpen' = isEditorOpen
         /\ annotations' = annotations
         /\ textInstructions' = textInstructions]_vars

\* C19: when the image request of handleGenerate succeeded and its caption
\* request fails, the generated image and the caption are left as they are,
\* loading is false again, and the notification left is the error one, which
\* replaces the earlier success notification.
C19_CaptionFailureAfterImage ==
  [][\A r \in Pending :
       HandleGenerateFail(r) /\ r.ph = "generateCaption" =>
         /\ generatedImage' = generatedImage
         /\ caption' = caption
         /\ ~loading'
         /\ notification' = Msg(variant, "genFail")
         /\ notification'.type = "error"]_vars

\* the caption request failed under a generated image
C19_Witness ==
  /\ last.op = "handleGenerateCaptionFail"
  /\ generatedImage \in GeneratedImages
  /\ notification = Msg(variant, "genFail")
  /\ ~loading
  /\ inflight = EmptyBag

\* C20: part_000 issues a caption request on its own only while appMode is
\* "text", and every request it issues on its own carries an accomplishment
\* text whose trimmed length is greater than 10, for every order of typing,
\* tone changes and mode switches.
C20_AutoCaptionGuard ==
  [][(DebounceFire \/ (\E m \in {"image", "text"} : SetAppMode(m))
                   \/ (\E t \in Tones : SetSelectedTone(t)))
       => \A q \in BagToSet(inflight') :
            q.h = "handleAIRefineCaption"
              /\ CopiesIn(q, inflight') > CopiesIn(q, inflight)
            => /\ mode' = "text"
               /\ Len(Trim(q.txt)) > AutoCaptionMinLength]_vars

\* C21: in index.tsx, once handleGenerate has cleared the caption it stays
\* empty until the user edits it or a caption request started after the
\* clear completes. Both need the caption box, which is shown only under a
\* generated image: while there is no image, the caption stays empty, and a
\* caption or caption-enhance reply that arrives then leaves it empty.
C21_ClearedCaptionStaysEmpty ==
  [][variant = "index" /\ generatedImage = Null /\ caption = Empty
       /\ (\E g \in Pending : g.h = "handleGenerate")
       /\ (\E r \in Pending : \E reply \in CaptionReplies \cup TextReplies :
              \/ reply \in CaptionReplies /\ IdxHandleGenerateCaptionOk(r, reply)
              \/ reply \in TextReplies /\ IdxHandleEnhanceCaptionOk(r, reply))
       => caption' = Empty]_vars

\* C22: in index.tsx at most one publish request, image or text, is in flight
\* at any time, and posting is true exactly while it is: every Post button is
\* disabled by posting, on both tabs, so a second publish starts only after
\* the first has settled, tab switches included.
C22_OnePublishInFlight ==
  variant = "index" =>
    LET publishing == {r \in Pending : r.h = "handlePostToLinkedIn"}
    IN /\ Cardinality(publishing) <= 1
       /\ \A r \in publishing : CopiesIn(r, inflight) = 1
       /\ posting = (publishing # {})
       /\ posting => ~IdxPostButton

\* an image is being published and the user has moved to the text tab, where
\* there is text to post
C22_Witness ==
  /\ variant = "index"
  /\ posting
  /\ mode = "text"
  /\ textContent # Empty
  /\ \E r \in Pending : r.h = "handlePostToLinkedIn" /\ r.aux = "image"

\* C23: in the editor of part_000 an edit request is issued only with an
\* instruction text that is not blank and only when no edit of that editor is
\* in flight, whether the Apply button or the Enter key started it: the edit
\* requests under way from the open editor are at most one, and none carries
\* a blank instruction.
C23_EditRequestGuarded ==
  variant = "p000" =>
    LET edits == {r \in Pending : /\ r.h = "handleFinalSend"
                                  /\ r.ph = "sendEdit"
                                  /\ r.live}
    IN /\ Cardinality(edits) <= 1
       /\ \A r \in edits : r.txt # Empty /\ CopiesIn(r, inflight) = 1

C25_OneEditAtATime ==
  /\ [](editingTextId # NoId =>
          /\ editingTextId \in DOMAIN annotations
          /\ \A i \in DOMAIN annotations :
               i # editingTextId => annotations[i] # Empty)
  /\ [][HandleMouseDown /\ editingTextId # NoId =>
          /\ annotations' = annotations
          /\ editingTextId' = editingTextId
          /\ tempText' = tempText]_vars

\* a mouse-down arrived while the text of the second annotation was being typed
C25_Witness ==
  /\ last.op = "handleMouseDown"
  /\ editingTextId = 2
  /\ tempText = Note
  /\ annotations = <<Note, Empty>>

\* C26: in every reachable state of the annotation editor every annotation
\* other than the one being edited has a text that is not empty once trimmed:
\* committing a blank text removes that annotation, and only that one, and
\* committing any other text changes the text of that annotation only.
C26_NoBlankAnnotation ==
  /\ [](\A i \in DOMAIN annotations :
          i # editingTextId => Trim(annotations[i]) # Empty)
  /\ [][BlurTempText =>
          IF Trim(tempText) = Empty
            THEN /\ Len(annotations') = Len(annotations) - 1
                 /\ \A i \in DOMAIN annotations :
                      /\ i < editingTextId => annotations'[i] = annotations[i]
                      /\ i > editingTextId => annotations'[i - 1] = annotations[i]
            ELSE /\ Len(annotations') = Len(annotations)
                 /\ annotations'[editingTextId] = tempText
                 /\ \A i \in DOMAIN annotations :
                      i # editingTextId => annotations'[i] = annotations[i]]_vars

\* a second annotation was committed with a text of white space and is gone
C26_Witness ==
  /\ EditorShown
  /\ editingTextId = NoId
  /\ tempText = Blank
  /\ annotations = <<Note>>

\* C27: in geminiService.ts and part_000 the multipart body of a publish
\* request has a 'file' part exactly when the mode is image, always has
\* 'caption', and has 'type' equal to 'image' in image mode and to 'text_only'
\* in text mode; a publish of the text mode never carries the generated
\* image, even when there is one.
C27_PublishPayloadByMode ==
  /\ [](variant \in {"gs", "p000"} =>
          \A r \in Pending :
            r.h = "handlePostToLinkedIn" =>
              /\ r.aux \in {"image", "text_only"}
              /\ r.img # Null <=> r.aux = "image")
  /\ [][(variant \in {"gs", "p000"} /\ HandlePostToLinkedIn
            /\ inflight' # inflight) =>
          (\E q \in BagToSet(inflight') :
             /\ CopiesIn(q, inflight') = CopiesIn(q, inflight) + 1
             /\ q.h = "handlePostToLinkedIn"
             /\ q.cap = caption
             /\ q.aux = (IF mode = "image" THEN "image" ELSE "text_only")
             /\ q.img = (IF mode = "image" THEN generatedImage ELSE Null)
             /\ (mode = "image" => generatedImage # Null))]_vars

\* a text-only publish is in flight while a generated image exists
C27_Witness ==
  /\ variant \in {"gs", "p000"}
  /\ mode = "text"
  /\ generatedImage # Null
  /\ \E r \in Pending : /\ r.h = "handlePostToLinkedIn"
                         /\ r.aux = "text_only"
                         /\ r.img = Null
                         /\ r.cap # Empty

\* C28: if the logo data URL, or a style-reference data URL that is not null,
\* cannot be converted to a blob, generateSocialPost fails with "Failed to
\* process logo image.", respectively "Failed to process style reference
\* image.", and no request is sent to the generation webhook. Of the data
\* URLs named, those that cannot be converted are the five listed.
C28_BlobFailureSendsNothing ==
  /\ []({name \in {"logo", "refA", "refB", "noType", "emptyBlob", "plain",
                     "noPayload", "badChar", "badLength"} :
            dataURLtoBlob(DataURLOf(name)).thrown}
         = {"emptyBlob", "plain", "noPayload", "badChar", "badLength"})
  /\ [](\A r \in Pending :
          r.h = "handleGenerate" /\ r.ph = "generateSocialPost" =>
            /\ ~dataURLtoBlob(DataURLOf(logoBase64)).thrown
            /\ styleRef # Null => ~dataURLtoBlob(DataURLOf(styleRef)).thrown)
  /\ [][\A r \in Pending :
          IdxHandleGenerateFail(r) =>
            IF dataURLtoBlob(DataURLOf(logoBase64)).thrown
              THEN error' = "Failed to process logo image."
              ELSE (styleRef # Null
                      /\ dataURLtoBlob(DataURLOf(styleRef)).thrown) =>
                   error' = "Failed to process style reference image."]_vars

\* generation was asked for with a good logo and a style reference that is
\* not base64, and has failed
C28_Witness ==
  /\ logoBase64 = "logo"
  /\ styleRef = "plain"
  /\ last.op = "handleGenerateFail"
  /\ error = "Failed to process style reference image."
  /\ ~loading
  /\ inflight = EmptyBag

\* C29: in index.tsx handleEnhance(type) writes its result only to the field
\* it was invoked for, accomplishment for 'image' and textContent for 'text',
\* and leaves the other field as it is, also when the user has switched tabs
\* while the request was in flight; on failure neither field changes.
C29_EnhanceWritesItsOwnField ==
  [][\A r \in Pending :
       /\ \A reply \in TextReplies :
            IdxHandleEnhanceOk(r, reply) =>
              IF r.aux = "image"
                THEN /\ accomplishment' = EnhanceText(r.txt, reply)
                     /\ textContent' = textContent
                ELSE /\ textContent' = EnhanceText(r.txt, reply)
                     /\ accomplishment' = accomplishment
       /\ IdxHandleEnhanceFail(r) =>
            /\ accomplishment' = accomplishment
            /\ textContent' = textContent]_vars

\* the accomplishment was enhanced while the text tab, with its own text, was
\* shown
C29_Witness ==
  /\ variant = "index"
  /\ last.op = "handleEnhanceOk"
  /\ mode = "text"
  /\ accomplishment = AIText
  /\ textContent = Short

=============================================================================
